---- MODULE Spec2Model ----
(***************************************************************************)
(* Model of api_test_challenge/database_config.py: the DatabaseConfig      *)
(* object (credential resolution, the cached connectivity probe, scoped    *)
(* connections, query execution and the two person lookups), run           *)
(* single-threaded against a SQL store that can go down and come back, and *)
(* called from several threads at once.                                    *)
(*                                                                         *)
(* Python values are records with a "tag" field, so that None, booleans,   *)
(* integers, strings and dicts can be compared with one another.  Strings  *)
(* are sequences of one-character strings.  Every method is an operator    *)
(* from a machine state st = [self, db, fx] (the object, the store, the    *)
(* instrumentation counters) to an outcome [st, ret, exc].                 *)
(***************************************************************************)
EXTENDS Integers, Sequences, FiniteSets, TLC

VARIABLES
    env,                  \* os.environ: the six DB_* keys
    HAS_DB_DEPENDENCIES,  \* module flag set by the guarded import
    phase,                \* "new" | "ready" | "crashed" (the constructor raised)
    self,                 \* the DatabaseConfig instance
    db,                   \* the SQL store: reachability and table Test.Worldsys
    fx,                   \* counters of external effects since construction
    last,                 \* the last completed call: operation, argument, outcome
    nOps,                 \* number of completed calls
    threads,              \* the threads calling the instance at the same time
    api                   \* the ImportAPI instance and the context attached to it

vars ==
    <<env, HAS_DB_DEPENDENCIES, phase, self, db, fx, last, nOps, threads, api>>

-----------------------------------------------------------------------------
(* Bounds *)

MaxOps == 3

\* the threads that share the instance, and the calls they make in total
Threads == {1, 2}
MaxCalls == 2

\* the calls made on one ImportAPI instance
MaxApiCalls == 2

-----------------------------------------------------------------------------
(* Python values *)

None == [tag |-> "None"]
PyBool(b) == [tag |-> "bool", b |-> b]
PyInt(n) == [tag |-> "int", n |-> n]
PyStr(chars) == [tag |-> "str", chars |-> chars]
PyList(items) == [tag |-> "list", items |-> items]

NoExc == "NoExc"

\* bool(v) for the values the model uses
Truthy(v) ==
    CASE v.tag = "None" -> FALSE
      [] v.tag = "bool" -> v.b
      [] v.tag = "int" -> v.n # 0
      [] v.tag = "str" -> Len(v.chars) > 0
      [] v.tag = "list" -> Len(v.items) > 0
      [] OTHER -> TRUE

Return(st, v) == [st |-> st, ret |-> v, exc |-> NoExc]
Raise(st, e) == [st |-> st, ret |-> None, exc |-> e]

Digits == <<"0", "1", "2", "3", "4", "5", "6", "7", "8", "9">>
DigitValue(c) == (CHOOSE i \in 1..10 : Digits[i] = c) - 1

RECURSIVE DigitsValue(_)
DigitsValue(cs) ==
    IF cs = <<>> THEN 0
    ELSE 10 * DigitsValue(SubSeq(cs, 1, Len(cs) - 1)) + DigitValue(cs[Len(cs)])

AllDigits(cs) == Len(cs) > 0 /\ \A i \in 1..Len(cs) : \E d \in 1..10 : Digits[d] = cs[i]

\* int(s) of a str: an optional sign and decimal digits, ValueError otherwise
\* (the strings of the model hold no blanks and no underscores)
PyIntOfStr(cs) ==
    LET signed == Len(cs) > 0 /\ cs[1] \in {"+", "-"}
        body == IF signed THEN Tail(cs) ELSE cs
    IN IF ~AllDigits(body) THEN [ok |-> FALSE, n |-> 0]
       ELSE [ok |-> TRUE,
             n |-> IF signed /\ cs[1] = "-" THEN 0 - DigitsValue(body)
                   ELSE DigitsValue(body)]

RECURSIVE NatToChars(_)
NatToChars(n) ==
    IF n < 10 THEN <<Digits[n + 1]>>
    ELSE NatToChars(n \div 10) \o <<Digits[(n % 10) + 1]>>

\* str(n) of an int
PyStrOfInt(n) == IF n < 0 THEN <<"-">> \o NatToChars(0 - n) ELSE NatToChars(n)

\* s.replace(a, b) for one-character a and b
Replace(cs, a, b) == [i \in 1..Len(cs) |-> IF cs[i] = a THEN b ELSE cs[i]]

-----------------------------------------------------------------------------
(* The configuration source *)

RequiredKeys == {"DB_SERVER", "DB_NAME", "DB_USER", "DB_PASSWORD"}
EnvKeys == RequiredKeys \cup {"DB_PORT", "DB_DRIVER"}

DefaultDriver ==
    <<"O", "D", "B", "C", " ", "D", "r", "i", "v", "e", "r", " ", "1", "7", " ",
      "f", "o", "r", " ", "S", "Q", "L", " ", "S", "e", "r", "v", "e", "r">>

\* os.getenv(key): None when the key is not set
getenv(e, key) == e[key]

\* os.getenv(key, default)
getenv_default(e, key, default) == IF e[key] = None THEN PyStr(default) ELSE e[key]

\* all([...]) over a tuple of values
PyAll(vs) == \A i \in 1..Len(vs) : Truthy(vs[i])

\* a mutant of _load_credentials: the password is not among the required keys
_load_credentials_no_password(e) ==
    LET server == getenv(e, "DB_SERVER")
        database == getenv(e, "DB_NAME")
        username == getenv(e, "DB_USER")
        password == getenv(e, "DB_PASSWORD")
        port == getenv(e, "DB_PORT")
        driver == getenv_default(e, "DB_DRIVER", DefaultDriver)
    IN IF ~PyAll(<<server, database, username>>) THEN [ret |-> None, exc |-> NoExc]
       ELSE IF Truthy(port) /\ ~PyIntOfStr(port.chars).ok
            THEN [ret |-> None, exc |-> "ValueError"]
       ELSE [ret |-> [tag |-> "DatabaseCredentials",
                      server |-> server, database |-> database,
                      username |-> username, password |-> password,
                      port |-> IF Truthy(port) THEN PyInt(PyIntOfStr(port.chars).n)
                               ELSE None,
                      driver |-> driver],
             exc |-> NoExc]

\* DatabaseConfig._load_credentials: the credentials, None, or the exception
\* int(port) raises
_load_credentials(e) ==
    LET server == getenv(e, "DB_SERVER")
        database == getenv(e, "DB_NAME")
        username == getenv(e, "DB_USER")
        password == getenv(e, "DB_PASSWORD")
        port == getenv(e, "DB_PORT")
        driver == getenv_default(e, "DB_DRIVER", DefaultDriver)
    IN IF ~PyAll(<<server, database, username, password>>)
       THEN [ret |-> None, exc |-> NoExc]
       ELSE IF Truthy(port) /\ ~PyIntOfStr(port.chars).ok
            THEN [ret |-> None, exc |-> "ValueError"]
       ELSE [ret |-> [tag |-> "DatabaseCredentials",
                      server |-> server, database |-> database,
                      username |-> username, password |-> password,
                      port |-> IF Truthy(port) THEN PyInt(PyIntOfStr(port.chars).n)
                               ELSE None,
                      driver |-> driver],
             exc |-> NoExc]

-----------------------------------------------------------------------------
(* The SQL store behind the engine *)

PersonIds == {111, 222}

ProbeQuery == "SELECT 1"
CountQuery == "SELECT COUNT(*) FROM Test.Worldsys WHERE personId = :person_id"
SelectQuery == "SELECT DISTINCT * FROM Test.Worldsys WHERE personId = :person_id"
BadQuery == "SELECT * FROM Test.NoSuchTable"

\* column k (from 0) of the row of person p; personId is the table's first
\* column, the layout get_person_data assumes
ColumnValue(p, k) == IF k = 0 THEN PyInt(p) ELSE PyInt(p * 10 + k)
MkRow(p, w) == [i \in 1..w |-> ColumnValue(p, i - 1)]

\* the rows of Test.Worldsys in store d
TableRows(d) == {MkRow(p, d.width) : p \in d.ids}

\* WHERE personId = :person_id
Matching(d, person_id) == {r \in TableRows(d) : r[1] = person_id}

RECURSIVE SetToSeq(_)
SetToSeq(S) ==
    IF S = {} THEN <<>>
    ELSE LET x == CHOOSE y \in S : TRUE IN <<x>> \o SetToSeq(S \ {x})

\* the server's answer to one statement on an open connection: the rows, or
\* the error it reports (for a statement on a table that does not exist)
ExecuteSql(d, query, person_id) ==
    CASE query = ProbeQuery -> [ok |-> TRUE, rows |-> <<<<PyInt(1)>>>>]
      [] query = CountQuery ->
            [ok |-> TRUE, rows |-> <<<<PyInt(Cardinality(Matching(d, person_id)))>>>>]
      [] query = SelectQuery ->
            [ok |-> TRUE, rows |-> SetToSeq(Matching(d, person_id))]
      [] OTHER -> [ok |-> FALSE, rows |-> <<>>]

\* outcomes of the library calls that do not depend on the store
NoFaults ==
    [create_engine_ok |-> TRUE, sessionmaker_ok |-> TRUE, close_ok |-> TRUE,
     commit_ok |-> TRUE, rollback_ok |-> TRUE, session_close_ok |-> TRUE]

-----------------------------------------------------------------------------
(* DatabaseConfig *)

\* the one element of a one-element set; Only({e(x) : x \in {v}}) is e(v), the
\* form the methods use to name the outcome v of a call
Only(S) == CHOOSE x \in S : TRUE

\* st with one counter of fx raised by one
Bump(st, counter) == [st EXCEPT !.fx[counter] = @ + 1]

\* a mutant of is_configured: the driver support is not looked at
is_configured_ignores_dependencies(st) == st.self.credentials # None

\* a mutant of is_configured: the answer also requires a successful probe
is_configured_requires_probe(st) ==
    st.self.credentials # None /\ HAS_DB_DEPENDENCIES /\ st.self._is_available

\* DatabaseConfig.is_configured
is_configured(st) == st.self.credentials # None /\ HAS_DB_DEPENDENCIES

UrlScheme ==
    <<"m", "s", "s", "q", "l", "+", "p", "y", "o", "d", "b", "c", ":", "/", "/">>
UrlDriverKey == <<"?", "d", "r", "i", "v", "e", "r", "=">>

\* a mutant of get_connection_string: the guard of lines 122-123 is missing,
\* and reading a field of None raises AttributeError
get_connection_string_unguarded(st) ==
    LET c == st.self.credentials IN
    IF c = None THEN Raise(st, "AttributeError")
    ELSE LET port_part == IF Truthy(c.port) THEN <<",">> \o PyStrOfInt(c.port.n)
                          ELSE <<>>
         IN Return(st, PyStr(UrlScheme \o c.username.chars \o <<":">>
                             \o c.password.chars \o <<"@">> \o c.server.chars
                             \o port_part \o <<"/">> \o c.database.chars
                             \o UrlDriverKey \o Replace(c.driver.chars, " ", "+")))

\* a mutant of get_connection_string: the credentials are resolved again from
\* the configuration source on every call
get_connection_string_reloads(st) ==
    Only({IF ~Truthy(c) THEN Raise([st EXCEPT !.self.credentials = c], "ValueError")
          ELSE Return([st EXCEPT !.self.credentials = c],
                      PyStr(UrlScheme \o c.username.chars \o <<":">>
                            \o c.password.chars \o <<"@">> \o c.server.chars
                            \o (IF Truthy(c.port)
                                THEN <<",">> \o PyStrOfInt(c.port.n) ELSE <<>>)
                            \o <<"/">> \o c.database.chars
                            \o UrlDriverKey \o Replace(c.driver.chars, " ", "+"))) :
          c \in {_load_credentials(env).ret}})

\* DatabaseConfig.get_connection_string
get_connection_string(st) ==
    LET c == st.self.credentials IN
    IF ~Truthy(c) THEN Raise(st, "ValueError")
    ELSE LET port_part == IF Truthy(c.port) THEN <<",">> \o PyStrOfInt(c.port.n)
                          ELSE <<>>
         IN Return(st, PyStr(UrlScheme \o c.username.chars \o <<":">>
                             \o c.password.chars \o <<"@">> \o c.server.chars
                             \o port_part \o <<"/">> \o c.database.chars
                             \o UrlDriverKey \o Replace(c.driver.chars, " ", "+")))

\* lines 146-154 of get_engine, given the connection string cs:
\* f.create_engine_ok and f.sessionmaker_ok say whether create_engine and
\* sessionmaker succeed
CreateEngine(st, f, cs) ==
    IF ~f.create_engine_ok THEN Raise(st, "ArgumentError")
    ELSE LET engine == [tag |-> "Engine", url |-> cs.chars, n |-> st.fx.engines + 1]
             st1 == [Bump(st, "engines") EXCEPT !.self.engine = engine]
         IN IF ~f.sessionmaker_ok THEN Raise(st1, "TypeError")
            ELSE Return([st1 EXCEPT !.self.session_factory =
                             [tag |-> "sessionmaker", bind |-> engine.n]],
                        engine)

\* a mutant of get_engine: the test of line 140 is missing, every call
\* constructs an engine
get_engine_not_memoized(st, f) ==
    IF ~is_configured(st) THEN Raise(st, "ValueError")
    ELSE Only({IF cs.exc # NoExc THEN Raise(st, cs.exc)
               ELSE CreateEngine(st, f, cs.ret) :
               cs \in {get_connection_string(st)}})

\* DatabaseConfig.get_engine
get_engine(st, f) ==
    IF st.self.engine # None THEN Return(st, st.self.engine)
    ELSE IF ~is_configured(st) THEN Raise(st, "ValueError")
    ELSE Only({IF cs.exc # NoExc THEN Raise(st, cs.exc)
               ELSE CreateEngine(st, f, cs.ret) :
               cs \in {get_connection_string(st)}})

\* a mutant of RunConnectionBody: execute_query returns the result of
\* conn.execute as it is, without fetchall, so the caller gets a cursor that
\* has not been read
RunConnectionBody_returns_cursor(st, body) ==
    CASE body.kind = "probe" ->
            Only({IF ~res.ok THEN Raise(Bump(st, "stmts"), "ProgrammingError")
                  ELSE Return([Bump(st, "stmts") EXCEPT
                                   !.self._is_available = Len(res.rows) > 0],
                              None) :
                  res \in {ExecuteSql(st.db, ProbeQuery, None)}})
      [] body.kind = "query" ->
            Only({IF ~res.ok THEN Raise(Bump(st, "stmts"), "ProgrammingError")
                  ELSE Return(Bump(st, "stmts"),
                              [tag |-> "CursorResult", unread |-> res.rows]) :
                  res \in {ExecuteSql(st.db, body.query, body.person_id)}})
      [] OTHER ->
            IF body.raises THEN Raise(st, "BodyError") ELSE Return(st, None)

\* the body of a `with get_connection() as conn:` block, run on an open
\* connection: the probe's SELECT 1 (lines 104-106), a query of execute_query
\* (lines 222-223), or a caller's own block
RunConnectionBody(st, body) ==
    CASE body.kind = "probe" ->
            Only({IF ~res.ok THEN Raise(Bump(st, "stmts"), "ProgrammingError")
                  ELSE Return([Bump(st, "stmts") EXCEPT
                                   !.self._is_available = Len(res.rows) > 0],
                              None) :
                  res \in {ExecuteSql(st.db, ProbeQuery, None)}})
      [] body.kind = "query" ->
            Only({IF ~res.ok THEN Raise(Bump(st, "stmts"), "ProgrammingError")
                  ELSE Return(Bump(st, "stmts"), PyList(res.rows)) :
                  res \in {ExecuteSql(st.db, body.query, body.person_id)}})
      [] OTHER ->
            IF body.raises THEN Raise(st, "BodyError") ELSE Return(st, None)

\* a mutant of Connect: close is called after the block and not in a finally
\* clause, so a raising block leaves the connection open
Connect_close_without_finally(st, f, body) ==
    IF ~st.db.up THEN Raise(Bump(st, "connects"), "OperationalError")
    ELSE Only({IF b.exc # NoExc THEN b
               ELSE IF ~f.close_ok THEN Raise(Bump(b.st, "closed"), "DBAPIError")
               ELSE [b EXCEPT !.st = Bump(b.st, "closed")] :
               b \in {RunConnectionBody(Bump(Bump(st, "connects"), "opened"), body)}})

\* lines 174-179 of get_connection, on the engine's machine state:
\* engine.connect() succeeds exactly when the store is reachable; the
\* connection is closed in the finally clause, and a failing close replaces the
\* body's outcome
Connect(st, f, body) ==
    IF ~st.db.up THEN Raise(Bump(st, "connects"), "OperationalError")
    ELSE Only({IF ~f.close_ok THEN Raise(Bump(b.st, "closed"), "DBAPIError")
               ELSE [b EXCEPT !.st = Bump(b.st, "closed")] :
               b \in {RunConnectionBody(Bump(Bump(st, "connects"), "opened"), body)}})

\* DatabaseConfig.get_connection around a body
get_connection(st, f, body) ==
    IF ~is_configured(st) THEN Raise(st, "ValueError")
    ELSE Only({IF e.exc # NoExc THEN Raise(e.st, e.exc)
               ELSE Connect(e.st, f, body) :
               e \in {get_engine(st, f)}})

\* a mutant of ProbeResult: a failed attempt leaves the store classified
\* available
ProbeResult_available_on_error(r) ==
    LET st1 == IF r.exc # NoExc
               THEN [Bump(r.st, "probe_warnings") EXCEPT !.self._is_available = TRUE]
               ELSE r.st
        st2 == [st1 EXCEPT !.self._connection_tested = TRUE]
    IN Return(st2, PyBool(st2.self._is_available))

\* lines 108-113 of _test_connection, given the outcome r of the `with` block:
\* fx.probe_warnings counts the attempts that raised (the warning of line 109)
ProbeResult(r) ==
    LET st1 == IF r.exc # NoExc
               THEN [Bump(r.st, "probe_warnings") EXCEPT !.self._is_available = FALSE]
               ELSE r.st
        st2 == [st1 EXCEPT !.self._connection_tested = TRUE]
    IN Return(st2, PyBool(st2.self._is_available))

\* a mutant of _test_connection: line 112 is missing, the attempt is not recorded
_test_connection_not_recorded(st, f) ==
    IF ~is_configured(st)
    THEN Return([st EXCEPT !.self._connection_tested = TRUE,
                           !.self._is_available = FALSE], PyBool(FALSE))
    ELSE Only({[t EXCEPT !.st.self._connection_tested = FALSE] :
               t \in {ProbeResult(get_connection(Bump(st, "probes"), f,
                                                 [kind |-> "probe"]))}})

\* a mutant of _test_connection: a failed attempt is not remembered, so that
\* the next read probes again
_test_connection_retry_on_failure(st, f) ==
    IF ~is_configured(st)
    THEN Return([st EXCEPT !.self._connection_tested = TRUE,
                           !.self._is_available = FALSE], PyBool(FALSE))
    ELSE Only({[t EXCEPT !.st.self._connection_tested = t.st.self._is_available] :
               t \in {ProbeResult(get_connection(Bump(st, "probes"), f,
                                                 [kind |-> "probe"]))}})

\* a mutant of _test_connection: the unconfigured branch records available
_test_connection_unconfigured_available(st, f) ==
    IF ~is_configured(st)
    THEN Return([st EXCEPT !.self._connection_tested = TRUE,
                           !.self._is_available = TRUE], PyBool(FALSE))
    ELSE ProbeResult(get_connection(Bump(st, "probes"), f, [kind |-> "probe"]))

\* DatabaseConfig._test_connection; fx.probes counts the probe's connection
\* attempts
_test_connection(st, f) ==
    IF ~is_configured(st)
    THEN Return([st EXCEPT !.self._connection_tested = TRUE,
                           !.self._is_available = FALSE], PyBool(FALSE))
    ELSE ProbeResult(get_connection(Bump(st, "probes"), f, [kind |-> "probe"]))

\* a mutant of is_available: every read runs the probe
is_available_always_probes(st, f) ==
    Only({Return(t.st, PyBool(t.st.self._is_available)) :
          t \in {_test_connection(Bump(st, "reads"), f)}})

\* a mutant of is_available: a cached negative result is probed again
is_available_retries_when_unavailable(st, f) ==
    IF ~st.self._connection_tested \/ ~st.self._is_available
    THEN Only({Return(t.st, PyBool(t.st.self._is_available)) :
               t \in {_test_connection(Bump(st, "reads"), f)}})
    ELSE Return(Bump(st, "reads"), PyBool(st.self._is_available))

\* DatabaseConfig.is_available; fx.reads counts the reads of the property
is_available(st, f) ==
    IF ~st.self._connection_tested
    THEN Only({Return(t.st, PyBool(t.st.self._is_available)) :
               t \in {_test_connection(Bump(st, "reads"), f)}})
    ELSE Return(Bump(st, "reads"), PyBool(st.self._is_available))

\* a mutant of execute_query: the guard of lines 217-218 is missing
execute_query_unguarded(st, f, query, person_id) ==
    Only({get_connection(a.st, f, [kind |-> "query", query |-> query,
                                   person_id |-> person_id]) :
          a \in {is_available(st, f)}})

\* DatabaseConfig.execute_query: the SQLAlchemyError handler logs and re-raises,
\* every other exception propagates as it is
execute_query(st, f, query, person_id) ==
    Only({IF ~Truthy(a.ret) THEN Raise(a.st, "ValueError")
          ELSE get_connection(a.st, f, [kind |-> "query", query |-> query,
                                        person_id |-> person_id]) :
          a \in {is_available(st, f)}})

\* a mutant of CountIsPositive: an empty result counts as found
CountIsPositive_empty_is_found(results) ==
    LET count == IF Truthy(results) THEN results.items[1][1] ELSE PyInt(1)
    IN count.n > 0

\* lines 245-249 of validate_person_exists, on the rows of the COUNT(*) query
CountIsPositive(results) ==
    LET count == IF Truthy(results) THEN results.items[1][1] ELSE PyInt(0)
    IN count.n > 0

\* a mutant of validate_person_exists: count >= 0 instead of count > 0
validate_person_exists_count_ge_zero(st, f, person_id) ==
    Only({IF ~Truthy(a.ret) THEN Return(a.st, PyBool(FALSE))
          ELSE Only({IF r.exc # NoExc THEN Return(r.st, PyBool(FALSE))
                     ELSE Return(r.st, PyBool(CountIsPositive(r.ret)
                                              \/ r.ret.items[1][1].n = 0)) :
                     r \in {execute_query(a.st, f, CountQuery, person_id)}}) :
          a \in {is_available(st, f)}})

\* a mutant of validate_person_exists: the handler of lines 251-253 is missing
validate_person_exists_no_handler(st, f, person_id) ==
    Only({IF ~Truthy(a.ret) THEN Return(a.st, PyBool(FALSE))
          ELSE Only({IF r.exc # NoExc THEN r
                     ELSE Return(r.st, PyBool(CountIsPositive(r.ret))) :
                     r \in {execute_query(a.st, f, CountQuery, person_id)}}) :
          a \in {is_available(st, f)}})

\* a mutant of validate_person_exists: a failed query is tried a second time
validate_person_exists_retries(st, f, person_id) ==
    Only({IF ~Truthy(a.ret) THEN Return(a.st, PyBool(FALSE))
          ELSE Only({IF r.exc # NoExc
                     THEN Only({IF s.exc # NoExc THEN Return(s.st, PyBool(FALSE))
                                ELSE Return(s.st, PyBool(CountIsPositive(s.ret))) :
                                s \in {execute_query(r.st, f, CountQuery, person_id)}})
                     ELSE Return(r.st, PyBool(CountIsPositive(r.ret))) :
                     r \in {execute_query(a.st, f, CountQuery, person_id)}}) :
          a \in {is_available(st, f)}})

\* DatabaseConfig.validate_person_exists
validate_person_exists(st, f, person_id) ==
    Only({IF ~Truthy(a.ret) THEN Return(a.st, PyBool(FALSE))
          ELSE Only({IF r.exc # NoExc THEN Return(r.st, PyBool(FALSE))
                     ELSE Return(r.st, PyBool(CountIsPositive(r.ret))) :
                     r \in {execute_query(a.st, f, CountQuery, person_id)}}) :
          a \in {is_available(st, f)}})

\* a mutant of PersonRecord: the length tests are off by one, so a field is
\* unset although its column is there
PersonRecord_off_by_one(row) ==
    [tag |-> "dict",
     personId |-> row[1],
     firstName |-> IF Len(row) > 2 THEN row[2] ELSE None,
     lastName |-> IF Len(row) > 3 THEN row[3] ELSE None,
     email |-> IF Len(row) > 4 THEN row[4] ELSE None,
     created_at |-> IF Len(row) > 5 THEN row[5] ELSE None]

\* lines 277-284 of get_person_data: the record of a result row
PersonRecord(row) ==
    [tag |-> "dict",
     personId |-> row[1],
     firstName |-> IF Len(row) > 1 THEN row[2] ELSE None,
     lastName |-> IF Len(row) > 2 THEN row[3] ELSE None,
     email |-> IF Len(row) > 3 THEN row[4] ELSE None,
     created_at |-> IF Len(row) > 4 THEN row[5] ELSE None]

\* a mutant of get_person_data: an empty result yields a record of unset
\* fields instead of None
get_person_data_empty_record(st, f, person_id) ==
    Only({IF ~Truthy(a.ret) THEN Return(a.st, None)
          ELSE Only({IF r.exc # NoExc THEN Return(r.st, None)
                     ELSE IF ~Truthy(r.ret)
                          THEN Return(r.st, PersonRecord(<<None>>))
                     ELSE Return(r.st, PersonRecord(r.ret.items[1])) :
                     r \in {execute_query(a.st, f, SelectQuery, person_id)}}) :
          a \in {is_available(st, f)}})

\* DatabaseConfig.get_person_data
get_person_data(st, f, person_id) ==
    Only({IF ~Truthy(a.ret) THEN Return(a.st, None)
          ELSE Only({IF r.exc # NoExc THEN Return(r.st, None)
                     ELSE IF ~Truthy(r.ret) THEN Return(r.st, None)
                     ELSE Return(r.st, PersonRecord(r.ret.items[1])) :
                     r \in {execute_query(a.st, f, SelectQuery, person_id)}}) :
          a \in {is_available(st, f)}})

\* the body of a `with get_session() as session:` block: it may write one
\* person row through the session (which needs the store to be reachable) and
\* may then raise; pending is the set of ids written and not yet committed
RunSessionBody(st, body) ==
    IF body.write # None /\ ~st.db.up
    THEN [exc |-> "OperationalError", pending |-> {}]
    ELSE [exc |-> IF body.raises THEN "BodyError" ELSE NoExc,
          pending |-> IF body.write = None THEN {} ELSE {body.write.n}]

\* st after session = self.session_factory(): session_log holds the calls made
\* on the latest session, in the order they were made
NewSession(st) == [Bump(st, "sessions") EXCEPT !.fx.session_log = <<>>]

\* st after one more call on the latest session has returned or raised
Logged(st, call) == [st EXCEPT !.fx.session_log = Append(@, call)]

\* a mutant of SessionScope: close is called in the try block, before commit
SessionScope_closes_first(st, f, b) ==
    LET st1 == Logged(Bump(st, "session_closes"), "close")
        exc1 == IF ~f.session_close_ok THEN "CloseError" ELSE b.exc
        committing == exc1 = NoExc
        st2 == IF committing
               THEN Logged(Bump(st1, "commits"), "commit") ELSE st1
        st3 == IF committing /\ f.commit_ok
               THEN [st2 EXCEPT !.db.ids = @ \cup b.pending] ELSE st2
        exc3 == IF committing /\ ~f.commit_ok THEN "CommitError" ELSE exc1
        st4 == IF exc3 # NoExc
               THEN Logged(Bump(st3, "rollbacks"), "rollback")
               ELSE st3
        exc4 == IF exc3 # NoExc /\ ~f.rollback_ok THEN "RollbackError" ELSE exc3
    IN IF exc4 # NoExc THEN Raise(st4, exc4) ELSE Return(st4, None)

\* a mutant of SessionScope: the writes of a raising body reach the store, as
\* if line 201 committed instead of rolling back
SessionScope_commits_on_error(st, f, b) ==
    LET committing == b.exc = NoExc
        st2 == IF committing
               THEN Logged(Bump(st, "commits"), "commit") ELSE st
        st3 == IF ~committing \/ f.commit_ok
               THEN [st2 EXCEPT !.db.ids = @ \cup b.pending] ELSE st2
        exc3 == IF committing /\ ~f.commit_ok THEN "CommitError" ELSE b.exc
        st4 == IF exc3 # NoExc
               THEN Logged(Bump(st3, "rollbacks"), "rollback")
               ELSE st3
        exc4 == IF exc3 # NoExc /\ ~f.rollback_ok THEN "RollbackError" ELSE exc3
        st5 == Logged(Bump(st4, "session_closes"), "close")
        exc5 == IF ~f.session_close_ok THEN "CloseError" ELSE exc4
    IN IF exc5 # NoExc THEN Raise(st5, exc5) ELSE Return(st5, None)

\* lines 195-204 of get_session, given the outcome b of the body:
\* f.commit_ok, f.rollback_ok and f.session_close_ok say whether commit,
\* rollback and close succeed
SessionScope(st, f, b) ==
    LET \* line 199: commit, reached when the body completed normally
        committing == b.exc = NoExc
        st2 == IF committing
               THEN Logged(Bump(st, "commits"), "commit") ELSE st
        st3 == IF committing /\ f.commit_ok
               THEN [st2 EXCEPT !.db.ids = @ \cup b.pending] ELSE st2
        exc3 == IF committing /\ ~f.commit_ok THEN "CommitError" ELSE b.exc
        \* lines 200-202: rollback and re-raise
        st4 == IF exc3 # NoExc
               THEN Logged(Bump(st3, "rollbacks"), "rollback")
               ELSE st3
        exc4 == IF exc3 # NoExc /\ ~f.rollback_ok THEN "RollbackError" ELSE exc3
        \* lines 203-204: close
        st5 == Logged(Bump(st4, "session_closes"), "close")
        exc5 == IF ~f.session_close_ok THEN "CloseError" ELSE exc4
    IN IF exc5 # NoExc THEN Raise(st5, exc5) ELSE Return(st5, None)

\* a mutant of get_session: the call reads is_available first, as
\* execute_query does
get_session_gated(st, f, body) ==
    Only({IF ~Truthy(a.ret) THEN Raise(a.st, "ValueError")
          ELSE Only({IF g.exc # NoExc THEN Raise(g.st, g.exc)
                     ELSE IF g.st.self.session_factory = None
                          THEN Raise(g.st, "TypeError")
                     ELSE SessionScope(NewSession(g.st), f,
                                       RunSessionBody(g.st, body)) :
                     g \in {IF ~Truthy(a.st.self.session_factory)
                            THEN get_engine(a.st, f) ELSE Return(a.st, None)}}) :
          a \in {is_available(st, f)}})

\* DatabaseConfig.get_session around a body
get_session(st, f, body) ==
    IF ~is_configured(st) THEN Raise(st, "ValueError")
    ELSE Only({IF g.exc # NoExc THEN Raise(g.st, g.exc)
               ELSE IF g.st.self.session_factory = None THEN Raise(g.st, "TypeError")
               ELSE SessionScope(NewSession(g.st), f,
                                 RunSessionBody(g.st, body)) :
               g \in {IF ~Truthy(st.self.session_factory) THEN get_engine(st, f)
                      ELSE Return(st, None)}})

-----------------------------------------------------------------------------
(* Initial states *)

Chars_v == <<"v">>
CustomDriver == <<"S", "Q", "L", " ", "S", "e", "r", "v", "e", "r">>

\* what a required key can hold: not set, set to the empty string, set
RequiredValues == {None, PyStr(<<>>), PyStr(Chars_v)}
PortValues ==
    {None}
    \cup {PyStr(p) : p \in {<<>>, <<"0">>, <<"1", "4", "3", "3">>, <<"a", "b", "c">>}}

\* every content of the six keys
AllEnvs ==
    {[k \in EnvKeys |->
        CASE k = "DB_SERVER" -> a
          [] k = "DB_NAME" -> b
          [] k = "DB_USER" -> c
          [] k = "DB_PASSWORD" -> d
          [] k = "DB_PORT" -> p
          [] OTHER -> r] :
        a \in RequiredValues, b \in RequiredValues, c \in RequiredValues,
        d \in RequiredValues, p \in PortValues, r \in {None, PyStr(CustomDriver)}}

EnvAbsent == [k \in EnvKeys |-> None]
EnvFull(port, driver) ==
    [k \in EnvKeys |->
        CASE k = "DB_PORT" -> port
          [] k = "DB_DRIVER" -> driver
          [] OTHER -> PyStr(Chars_v)]

\* the contents the runs of the object start from
SampleEnvs ==
    {EnvAbsent,
     EnvFull(None, None),
     EnvFull(PyStr(<<"1", "4", "3", "3">>), PyStr(CustomDriver)),
     EnvFull(PyStr(<<"a", "b", "c">>), None)}

Stores ==
    \* Test.Worldsys has three columns: a row is shorter than a full PersonRecord
    [up : BOOLEAN, width : {3}, ids : SUBSET PersonIds]

NoEffects ==
    [reads |-> 0, probes |-> 0, probe_warnings |-> 0, engines |-> 0, connects |-> 0,
     opened |-> 0, closed |-> 0, stmts |-> 0, sessions |-> 0, commits |-> 0,
     rollbacks |-> 0, session_closes |-> 0, session_log |-> <<>>]

NoCall == [op |-> "none", arg |-> None, ret |-> None, exc |-> NoExc]

\* a thread that has not called anything: op is the method it is in, gate the
\* caller of is_available ("outer": the method itself, "inner": execute_query),
\* ctx the caller of get_connection or get_engine, pc its position; untested,
\* engine_none and create_failed count its reads of _connection_tested = False (line 86), its
\* reads of engine = None (line 140) and its failed create_engine calls
Idle ==
    [op |-> "none", pc |-> "idle", gate |-> "none", ctx |-> "none",
     ret |-> None, exc |-> NoExc,
     untested |-> 0, engine_none |-> 0, create_failed |-> 0]

\* no thread has been started: start is the probe state when the threads
\* start, calls the number of calls the threads have made, late says whether
\* _is_available has changed while _connection_tested was true
NotStarted ==
    [start |-> None, calls |-> 0, late |-> FALSE, th |-> [t \in Threads |-> Idle]]

\* an attribute that has not been assigned (hasattr is false)
Unset == [tag |-> "unset"]

\* the ImportAPI instance after its __init__: db_config is the attached
\* context, calls the calls made on an attached test double
NewApi == [db_config |-> Unset, calls |-> <<>>]

\* the instance before __init__ has run
Unbuilt ==
    [credentials |-> None, engine |-> None, session_factory |-> None,
     _connection_tested |-> FALSE, _is_available |-> FALSE]

InitWith(envs) ==
    /\ env \in envs
    /\ HAS_DB_DEPENDENCIES \in BOOLEAN
    /\ phase = "new"
    /\ self = Unbuilt
    /\ db \in Stores
    /\ fx = NoEffects
    /\ last = NoCall
    /\ nOps = 0
    /\ threads = NotStarted
    /\ api = NewApi

Init == InitWith(SampleEnvs)

-----------------------------------------------------------------------------
(* Actions *)

State == [self |-> self, db |-> db, fx |-> fx]

\* DatabaseConfig.__init__, run by `db_config = DatabaseConfig()`
Construct ==
    /\ phase = "new"
    /\ LET c == _load_credentials(env) IN
       IF c.exc # NoExc
       THEN /\ phase' = "crashed"
            /\ last' = [op |-> "__init__", arg |-> None, ret |-> None, exc |-> c.exc]
            /\ UNCHANGED self
       ELSE /\ phase' = "ready"
            /\ last' = [op |-> "__init__", arg |-> None, ret |-> None, exc |-> NoExc]
            /\ self' = [credentials |-> c.ret, engine |-> None,
                        session_factory |-> None, _connection_tested |-> FALSE,
                        _is_available |-> FALSE]
    /\ UNCHANGED <<env, HAS_DB_DEPENDENCIES, db, fx, nOps, threads, api>>

\* a call has completed with outcome r
Completed(op, arg, r) ==
    /\ self' = r.st.self
    /\ db' = r.st.db
    /\ fx' = r.st.fx
    /\ last' = [op |-> op, arg |-> arg, ret |-> r.ret, exc |-> r.exc]
    /\ nOps' = nOps + 1
    /\ UNCHANGED <<env, HAS_DB_DEPENDENCIES, phase, threads, api>>

CanCall == phase = "ready" /\ nOps < MaxOps

\* The outcomes of the library calls an operation can reach from st: engine
\* and session-factory construction happen only while no engine is set, a
\* connection is closed only if the store let it open.
Outcomes(st, can) == IF can THEN BOOLEAN ELSE {TRUE}
EngineFaults(st) ==
    {[NoFaults EXCEPT !.create_engine_ok = a, !.sessionmaker_ok = b] :
        a \in Outcomes(st, is_configured(st) /\ st.self.engine = None),
        b \in Outcomes(st, is_configured(st) /\ st.self.engine = None)}
ConnectionFaults(st) ==
    {[f EXCEPT !.close_ok = c] :
        f \in EngineFaults(st), c \in Outcomes(st, is_configured(st) /\ st.db.up)}
\* commit is reached when the body completes normally, rollback when the body
\* raises or commit fails
SessionFaults(st, body) ==
    LET bodyOk == RunSessionBody(st, body).exc = NoExc IN
    {f \in {[e EXCEPT !.commit_ok = a, !.rollback_ok = b, !.session_close_ok = c] :
                e \in EngineFaults(st),
                a \in Outcomes(st, is_configured(st) /\ bodyOk),
                b \in Outcomes(st, is_configured(st)),
                c \in Outcomes(st, is_configured(st))} :
        f.rollback_ok \/ ~bodyOk \/ ~f.commit_ok}

ArgIds == {PyInt(p) : p \in PersonIds}

\* the statements execute_query is called with, each with its person_id
QueryCalls ==
    {<<ProbeQuery, None>>, <<BadQuery, None>>}
    \cup {<<q, id>> : q \in {CountQuery, SelectQuery}, id \in ArgIds}

IsConfigured ==
    /\ CanCall
    /\ Completed("is_configured", None, Return(State, PyBool(is_configured(State))))

IsAvailable ==
    /\ CanCall
    /\ \E f \in ConnectionFaults(State) :
          Completed("is_available", None, is_available(State, f))

GetConnectionString ==
    /\ CanCall
    /\ Completed("get_connection_string", None, get_connection_string(State))

GetEngine ==
    /\ CanCall
    /\ \E f \in EngineFaults(State) : Completed("get_engine", None, get_engine(State, f))

GetConnection ==
    /\ CanCall
    /\ \E f \in ConnectionFaults(State), raises \in BOOLEAN :
          Completed("get_connection", None,
                    get_connection(State, f, [kind |-> "user", raises |-> raises]))

GetSession ==
    /\ CanCall
    /\ \E raises \in BOOLEAN, w \in {None} \cup ArgIds :
       \E f \in SessionFaults(State, [write |-> w, raises |-> raises]) :
          Completed("get_session", [write |-> w, raises |-> raises],
                    get_session(State, f, [write |-> w, raises |-> raises]))

ExecuteQuery ==
    /\ CanCall
    /\ \E f \in ConnectionFaults(State), c \in QueryCalls :
          Completed("execute_query", c[2], execute_query(State, f, c[1], c[2]))

ValidatePersonExists ==
    /\ CanCall
    /\ \E f \in ConnectionFaults(State), id \in ArgIds :
          Completed("validate_person_exists", id, validate_person_exists(State, f, id))

GetPersonData ==
    /\ CanCall
    /\ \E f \in ConnectionFaults(State), id \in ArgIds :
          Completed("get_person_data", id, get_person_data(State, f, id))

\* the store becomes unreachable
StoreDown ==
    /\ db.up
    /\ db' = [db EXCEPT !.up = FALSE]
    /\ UNCHANGED <<env, HAS_DB_DEPENDENCIES, phase, self, fx, last, nOps, threads, api>>

\* the store becomes reachable again
StoreUp ==
    /\ ~db.up
    /\ db' = [db EXCEPT !.up = TRUE]
    /\ UNCHANGED <<env, HAS_DB_DEPENDENCIES, phase, self, fx, last, nOps, threads, api>>

\* another client of the store inserts or deletes a person row
StoreEdit ==
    /\ \E p \in PersonIds :
          db' = [db EXCEPT !.ids = IF p \in @ THEN @ \ {p} ELSE @ \cup {p}]
    /\ UNCHANGED <<env, HAS_DB_DEPENDENCIES, phase, self, fx, last, nOps, threads, api>>

Next ==
    \/ Construct
    \/ IsConfigured
    \/ IsAvailable
    \/ GetConnectionString
    \/ GetEngine
    \/ GetConnection
    \/ GetSession
    \/ ExecuteQuery
    \/ ValidatePersonExists
    \/ GetPersonData
    \/ StoreDown
    \/ StoreUp
    \/ StoreEdit

Spec == Init /\ [][Next]_vars

\* credential resolution alone, over every content of the configuration source
NextResolve == Construct
SpecResolve == InitWith(AllEnvs) /\ [][NextResolve]_vars

-----------------------------------------------------------------------------
(* ImportAPI: the database helpers *)

(* The helpers run against the context attached to the instance: either    *)
(* the module-level db_config, whose state is self, db and fx, or a test   *)
(* double assigned to import_api.db_config.  st is State extended with the *)
(* fields api and phase.                                                   *)

\* the module-level instance of database_config.py
TheDbConfig == [tag |-> "db_config"]

\* what a child of a MagicMock returns when no return_value was set
MagicMockValue == [tag |-> "MagicMock"]

\* what the methods of a test double do when called: return a new MagicMock
\* (nothing set), return the return_value set, raise the side_effect set
\* the MagicMock contexts the tests attach
Doubles ==
    [tag : {"double"}, is_configured : BOOLEAN, is_available : BOOLEAN,
     behaviour : {"default", "returns", "raises"}]

\* the return_value the tests set on each method of the double
ReturnValue(method) ==
    CASE method = "validate_person_exists" -> PyBool(TRUE)
      [] method = "get_person_data" ->
            PersonRecord(<<PyInt(111), PyStr(Chars_v), PyStr(Chars_v)>>)
      [] OTHER -> PyList(<<(<<PyInt(1)>>)>>)

\* st after one more call of the context's method has been recorded
Called(st, method, args) ==
    [st EXCEPT !.api.calls = Append(@, [method |-> method, args |-> args])]

\* self.db_config.<method>(*args)
Delegate(st, f, method, args) ==
    IF st.api.db_config = TheDbConfig
    THEN CASE method = "validate_person_exists" ->
                 validate_person_exists(Called(st, method, args), f, args[1])
           [] method = "get_person_data" ->
                 get_person_data(Called(st, method, args), f, args[1])
           [] OTHER ->
                 execute_query(Called(st, method, args), f, args[1], args[2])
    ELSE CASE st.api.db_config.behaviour = "raises" ->
                 Raise(Called(st, method, args), "Exception")
           [] st.api.db_config.behaviour = "returns" ->
                 Return(Called(st, method, args), ReturnValue(method))
           [] OTHER -> Return(Called(st, method, args), MagicMockValue)

\* self.db_config.is_configured
ContextIsConfigured(st) ==
    IF st.api.db_config = TheDbConfig THEN is_configured(st)
    ELSE st.api.db_config.is_configured

\* self.db_config.is_available
ContextIsAvailable(st, f) ==
    IF st.api.db_config = TheDbConfig THEN is_available(st, f)
    ELSE Return(st, PyBool(st.api.db_config.is_available))

\* a mutant of __init_db__: the test of line 133 is missing, every call binds
\* the module-level instance
__init_db___always_imports(st) ==
    IF st.phase = "crashed" THEN Raise(st, "ValueError")
    ELSE Return([st EXCEPT !.api.db_config = TheDbConfig], None)

\* ImportAPI.__init_db__: the import binds the module-level instance; when
\* DatabaseConfig() raised at module level the import raises it again, and
\* the handler is for ImportError only
__init_db__(st) ==
    IF st.api.db_config \notin {Unset, None} THEN Return(st, None)
    ELSE IF st.phase = "crashed" THEN Raise(st, "ValueError")
    ELSE Return([st EXCEPT !.api.db_config = TheDbConfig], None)

\* a mutant of validate_person_in_database: the is_configured check of lines
\* 156-158 is missing
validate_person_in_database_unguarded(st, f, person_id) ==
    Only({IF i.exc # NoExc THEN i
          ELSE IF i.st.api.db_config = None THEN Return(i.st, PyBool(FALSE))
          ELSE Only({IF r.exc # NoExc THEN Return(r.st, PyBool(FALSE)) ELSE r :
                     r \in {Delegate(i.st, f, "validate_person_exists",
                                     <<person_id>>)}}) :
          i \in {__init_db__(st)}})

\* a mutant of execute_db_query: params is not passed on
execute_db_query_drops_params(st, f, query, params) ==
    Only({IF i.exc # NoExc THEN i
          ELSE IF i.st.api.db_config = None THEN Return(i.st, None)
          ELSE Only({IF ~Truthy(a.ret) THEN Return(a.st, None)
                     ELSE Only({IF r.exc # NoExc THEN Return(r.st, None) ELSE r :
                                r \in {Delegate(a.st, f, "execute_query",
                                                <<query, None>>)}}) :
                     a \in {ContextIsAvailable(i.st, f)}}) :
          i \in {__init_db__(st)}})

\* ImportAPI.validate_person_in_database
validate_person_in_database(st, f, person_id) ==
    Only({IF i.exc # NoExc THEN i
          ELSE IF i.st.api.db_config = None THEN Return(i.st, PyBool(FALSE))
          ELSE IF ~ContextIsConfigured(i.st) THEN Return(i.st, PyBool(FALSE))
          ELSE Only({IF r.exc # NoExc THEN Return(r.st, PyBool(FALSE)) ELSE r :
                     r \in {Delegate(i.st, f, "validate_person_exists",
                                     <<person_id>>)}}) :
          i \in {__init_db__(st)}})

\* ImportAPI.get_person_from_database
get_person_from_database(st, f, person_id) ==
    Only({IF i.exc # NoExc THEN i
          ELSE IF i.st.api.db_config = None THEN Return(i.st, None)
          ELSE IF ~ContextIsConfigured(i.st) THEN Return(i.st, None)
          ELSE Only({IF r.exc # NoExc THEN Return(r.st, None) ELSE r :
                     r \in {Delegate(i.st, f, "get_person_data",
                                     <<person_id>>)}}) :
          i \in {__init_db__(st)}})

\* ImportAPI.execute_db_query
execute_db_query(st, f, query, params) ==
    Only({IF i.exc # NoExc THEN i
          ELSE IF i.st.api.db_config = None THEN Return(i.st, None)
          ELSE Only({IF ~Truthy(a.ret) THEN Return(a.st, None)
                     ELSE Only({IF r.exc # NoExc THEN Return(r.st, None) ELSE r :
                                r \in {Delegate(a.st, f, "execute_query",
                                                <<query, params>>)}}) :
                     a \in {ContextIsAvailable(i.st, f)}}) :
          i \in {__init_db__(st)}})

ApiState ==
    [self |-> self, db |-> db, fx |-> fx, api |-> api, phase |-> phase]

\* a call of a helper has completed with outcome r
CompletedApi(op, arg, r) ==
    /\ self' = r.st.self
    /\ db' = r.st.db
    /\ fx' = r.st.fx
    /\ api' = r.st.api
    /\ last' = [op |-> op, arg |-> arg, ret |-> r.ret, exc |-> r.exc]
    /\ nOps' = nOps + 1
    /\ UNCHANGED <<env, HAS_DB_DEPENDENCIES, phase, threads>>

\* the helpers run once database_config has been imported, or has failed to
CanCallApi == phase # "new" /\ nOps < MaxApiCalls

\* import_api.db_config = mock_db_config, before the helpers are called
Attach ==
    /\ phase # "new"
    /\ nOps = 0
    /\ api.db_config = Unset
    /\ \E d \in Doubles \cup {None} : api' = [api EXCEPT !.db_config = d]
    /\ UNCHANGED <<env, HAS_DB_DEPENDENCIES, phase, self, db, fx, last, nOps, threads>>

ValidatePersonInDatabase ==
    /\ CanCallApi
    /\ \E f \in ConnectionFaults(State), id \in ArgIds :
          CompletedApi("validate_person_in_database", <<id>>,
                       validate_person_in_database(ApiState, f, id))

GetPersonFromDatabase ==
    /\ CanCallApi
    /\ \E f \in ConnectionFaults(State), id \in ArgIds :
          CompletedApi("get_person_from_database", <<id>>,
                       get_person_from_database(ApiState, f, id))

ExecuteDbQuery ==
    /\ CanCallApi
    /\ \E f \in ConnectionFaults(State), c \in QueryCalls :
          CompletedApi("execute_db_query", c,
                       execute_db_query(ApiState, f, c[1], c[2]))

\* what self.session.post(url, json=payload) does: answer with a response or
\* raise a requests.exceptions.RequestException
PostOutcomes ==
    {Return(None, [tag |-> "Response", status_code |-> s, text |-> <<>>]) :
        s \in {201, 400}}
    \cup {Raise(None, "ConnectionError")}

\* ImportAPI.import_person: the response is returned as it is, the exception
\* is logged and raised again
import_person(st, person_id, post) ==
    IF post.exc # NoExc THEN Raise(st, post.exc) ELSE Return(st, post.ret)

ImportPerson ==
    /\ nOps < MaxApiCalls
    /\ \E id \in ArgIds, post \in PostOutcomes :
          CompletedApi("import_person", <<id>>, import_person(ApiState, id, post))

InitImport == InitWith(SampleEnvs)

NextImport ==
    \/ Construct
    \/ Attach
    \/ ValidatePersonInDatabase
    \/ GetPersonFromDatabase
    \/ ExecuteDbQuery
    \/ ImportPerson
    \/ StoreDown
    \/ StoreUp

SpecImport == InitImport /\ [][NextImport]_vars

-----------------------------------------------------------------------------

(* The connection string over driver names and ports *)

UrlEnvs ==
    {EnvAbsent}
    \cup {EnvFull(p, d) :
            p \in {None, PyStr(<<"0">>), PyStr(<<"1", "4", "3", "3">>)},
            d \in {None, PyStr(CustomDriver),
                   \* an ODBC driver name in braces, as odbcinst lists it
                   PyStr(<<"{", "S", "Q", "L", " ", "S", "e", "r", "v", "e", "r", "}">>)}}

NextUrl == Construct \/ GetConnectionString \/ GetEngine
SpecUrl == InitWith(UrlEnvs) /\ [][NextUrl]_vars

-----------------------------------------------------------------------------

(* ImportAPI: the response helpers *)

\* a mutant of validate_response_success: 204 No Content counts as success
validate_response_success_accepts_204(response) ==
    response.status_code \in {200, 201, 202, 204}

\* ImportAPI.validate_response_success
validate_response_success(response) == response.status_code \in {200, 201, 202}

\* ImportAPI.validate_response_error
validate_response_error(response, expected_status) ==
    response.status_code = expected_status

\* json.loads on a body over the characters "[", "]", "1" and "x": a number is
\* a run of "1", an array holds no or one value, "x" is no JSON.  The decoder
\* descends once per "[" and raises RecursionError below limit levels, before
\* it has seen the rest of the body.  The outcome is [exc, value, rest].
RECURSIVE ScanOnce(_, _, _)
ScanOnce(cs, depth, limit) ==
    IF cs = <<>> THEN [exc |-> "JSONDecodeError", value |-> None, rest |-> cs]
    ELSE IF Head(cs) = "1"
    THEN LET n == CHOOSE k \in 1..Len(cs) :
                     /\ \A i \in 1..k : cs[i] = "1"
                     /\ k = Len(cs) \/ cs[k + 1] # "1"
         IN [exc |-> NoExc, value |-> PyInt(DigitsValue(SubSeq(cs, 1, n))),
             rest |-> SubSeq(cs, n + 1, Len(cs))]
    ELSE IF Head(cs) = "["
    THEN IF depth + 1 > limit
         THEN [exc |-> "RecursionError", value |-> None, rest |-> cs]
         ELSE IF Len(cs) > 1 /\ cs[2] = "]"
         THEN [exc |-> NoExc, value |-> PyList(<<>>),
               rest |-> SubSeq(cs, 3, Len(cs))]
         ELSE Only({IF v.exc # NoExc THEN v
                    ELSE IF v.rest # <<>> /\ Head(v.rest) = "]"
                    THEN [exc |-> NoExc, value |-> PyList(<<v.value>>),
                          rest |-> Tail(v.rest)]
                    ELSE [exc |-> "JSONDecodeError", value |-> None,
                          rest |-> v.rest] :
                    v \in {ScanOnce(Tail(cs), depth + 1, limit)}})
    ELSE [exc |-> "JSONDecodeError", value |-> None, rest |-> cs]

\* json.loads(cs): one value and nothing after it
JsonLoads(cs, limit) ==
    Only({IF v.exc # NoExc THEN [exc |-> v.exc, value |-> None]
          ELSE IF v.rest # <<>> THEN [exc |-> "JSONDecodeError", value |-> None]
          ELSE [exc |-> NoExc, value |-> v.value] :
          v \in {ScanOnce(cs, 0, limit)}})

\* the nesting the decoder descends to before it raises RecursionError (the
\* interpreter's recursion limit, scaled to the bodies of the model)
RecursionLimit == 2

\* response.json()
ResponseJson(response) == JsonLoads(response.text, RecursionLimit)

\* ImportAPI.get_response_data: the handler is for json.JSONDecodeError and
\* ValueError; RecursionError is a RuntimeError
get_response_data(st, response) ==
    Only({IF j.exc = "JSONDecodeError" THEN Return(st, None)
          ELSE IF j.exc # NoExc THEN Raise(st, j.exc)
          ELSE Return(st, j.value) :
          j \in {ResponseJson(response)}})

\* the status codes and the bodies of the responses
MaxBody == 3
Bodies == UNION {[1..n -> {"[", "]", "1", "x"}] : n \in 0..MaxBody}

Response(status_code, text) ==
    [tag |-> "Response", status_code |-> status_code, text |-> text]

Responses ==
    {Response(s, <<>>) :
        s \in {100, 199, 200, 201, 202, 203, 204, 299, 301, 400, 404, 500}}
    \cup {Response(200, b) : b \in Bodies}

\* the calls of the response helpers in one run
MaxResponseCalls == 1

ValidateResponseSuccess ==
    /\ nOps < MaxResponseCalls
    /\ \E r \in Responses :
          Completed("validate_response_success", r,
                    Return(State, PyBool(validate_response_success(r))))

ValidateResponseError ==
    /\ nOps < MaxResponseCalls
    /\ \E r \in Responses, expected_status \in {400, 404} :
          Completed("validate_response_error", r,
                    Return(State, PyBool(validate_response_error(r, expected_status))))

GetResponseData ==
    /\ nOps < MaxResponseCalls
    /\ \E r \in Responses :
          Completed("get_response_data", r, get_response_data(State, r))

\* the instance is used without a database
InitResponse ==
    /\ InitWith({EnvAbsent})
    /\ ~HAS_DB_DEPENDENCIES
    /\ db = [up |-> FALSE, width |-> 3, ids |-> {}]

NextResponse ==
    \/ ValidateResponseSuccess
    \/ ValidateResponseError
    \/ GetResponseData

SpecResponse == InitResponse /\ [][NextResponse]_vars

-----------------------------------------------------------------------------

(* Several threads on one instance *)

(* The methods again, one step per read or write of a field that a method  *)
(* assigns (_connection_tested, _is_available, engine, session_factory)    *)
(* and per call of the library; threads interleave between steps.  The     *)
(* fields assigned only by __init__ (credentials) and the module flag are  *)
(* read within the neighbouring step.  A step maps the machine state st    *)
(* and the thread's record th to [st, th].                                 *)

ThreadOps == {"is_available", "validate_person_exists", "get_person_data",
              "get_engine"}

\* the person the threads look up
ThreadArg == PyInt(111)

Goto(st, th, pc) == [st |-> st, th |-> [th EXCEPT !.pc = pc]]

\* the call of the thread returns ret or raises exc
Finish(st, th, ret, exc) ==
    [st |-> st,
     th |-> [th EXCEPT !.pc = "done", !.ret = ret, !.exc = exc,
                       !.gate = "none", !.ctx = "none"]]

\* what a lookup returns when the store is unavailable or its query failed
\* (lines 240, 253 and 266, 288)
Absent(th) == IF th.op = "validate_person_exists" THEN PyBool(FALSE) ELSE None

\* lines 245-249 and 272-284: what a lookup returns for the rows of its query
LookupResult(th, rows) ==
    IF th.op = "validate_person_exists" THEN PyBool(CountIsPositive(rows))
    ELSE IF ~Truthy(rows) THEN None
    ELSE PersonRecord(rows.items[1])

\* the block the thread runs under `with self.get_connection() as conn:`
ThreadBody(th) ==
    IF th.ctx = "probe" THEN [kind |-> "probe"]
    ELSE [kind |-> "query",
          query |-> IF th.op = "validate_person_exists" THEN CountQuery
                    ELSE SelectQuery,
          person_id |-> ThreadArg]

\* exception e leaves get_connection or get_engine: the probe catches it
\* (line 108), a lookup catches it and returns its degraded value (lines 251,
\* 286), get_engine lets it through (line 158)
Fail(st, th, e) ==
    CASE th.ctx = "probe" ->
            [st |-> st, th |-> [th EXCEPT !.pc = "tc_except", !.ret = None,
                                           !.exc = NoExc]]
      [] th.ctx = "query" -> Finish(st, th, Absent(th), NoExc)
      [] OTHER -> Finish(st, th, None, e)

\* a mutant of is_available_step: line 86 is missing, every read probes
is_available_step_always_probes(st, th) ==
    IF th.pc = "ia_tested"
    THEN [st |-> Bump(st, "reads"),
          th |-> [th EXCEPT !.pc = "tc_start", !.untested = @ + 1]]
    ELSE IF th.gate = "outer" /\ th.op = "is_available"
         THEN Finish(st, th, PyBool(st.self._is_available), NoExc)
         ELSE Finish(st, th, Absent(th), NoExc)

\* DatabaseConfig.is_available, lines 86 and 88; the value read at line 88
\* goes to the caller: the thread (gate "outer", op is_available), a lookup
\* (gate "outer", lines 239 and 265) or execute_query (gate "inner", line 217)
is_available_step(st, th) ==
    IF th.pc = "ia_tested"
    THEN IF st.self._connection_tested
         THEN Goto(Bump(st, "reads"), th, "ia_ret")
         ELSE [st |-> Bump(st, "reads"),
               th |-> [th EXCEPT !.pc = "tc_start", !.untested = @ + 1]]
    ELSE IF th.gate = "outer" /\ th.op = "is_available"
         THEN Finish(st, th, PyBool(st.self._is_available), NoExc)
    ELSE IF ~st.self._is_available THEN Finish(st, th, Absent(th), NoExc)
    ELSE IF th.gate = "outer"
         THEN [st |-> st, th |-> [th EXCEPT !.gate = "inner", !.pc = "ia_tested"]]
    ELSE [st |-> st, th |-> [th EXCEPT !.ctx = "query", !.pc = "gc_start"]]

\* a mutant of _test_connection_step: the probe looks at _connection_tested
\* again before it connects, and gives up if another thread has recorded it
_test_connection_step_rechecks(st, th) ==
    CASE th.pc = "tc_start" ->
            IF st.self._connection_tested THEN Goto(st, th, "ia_ret")
            ELSE IF ~is_configured(st)
            THEN Goto([st EXCEPT !.self._connection_tested = TRUE], th, "tc_nc_avail")
            ELSE [st |-> Bump(st, "probes"),
                  th |-> [th EXCEPT !.ctx = "probe", !.pc = "gc_start"]]
      [] th.pc = "tc_nc_avail" ->
            Goto([st EXCEPT !.self._is_available = FALSE], th, "ia_ret")
      [] th.pc = "tc_except" ->
            Goto([Bump(st, "probe_warnings") EXCEPT !.self._is_available = FALSE],
                 th, "tc_tested")
      [] OTHER ->
            Goto([st EXCEPT !.self._connection_tested = TRUE], th, "ia_ret")

\* DatabaseConfig._test_connection: lines 97-98 (tc_start, not configured),
\* 99 (tc_nc_avail), 103 (tc_start, configured: the probe's connection
\* attempt begins), 108-110 (tc_except), 112 (tc_tested)
_test_connection_step(st, th) ==
    CASE th.pc = "tc_start" ->
            IF ~is_configured(st)
            THEN Goto([st EXCEPT !.self._connection_tested = TRUE], th, "tc_nc_avail")
            ELSE [st |-> Bump(st, "probes"),
                  th |-> [th EXCEPT !.ctx = "probe", !.pc = "gc_start"]]
      [] th.pc = "tc_nc_avail" ->
            Goto([st EXCEPT !.self._is_available = FALSE], th, "ia_ret")
      [] th.pc = "tc_except" ->
            Goto([Bump(st, "probe_warnings") EXCEPT !.self._is_available = FALSE],
                 th, "tc_tested")
      [] OTHER ->
            Goto([st EXCEPT !.self._connection_tested = TRUE], th, "ia_ret")

\* DatabaseConfig.get_engine: line 140 (ge_read), 141-151 (ge_create), 154
\* (ge_factory), 160 (ge_ret)
get_engine_step(st, th, f) ==
    CASE th.pc = "ge_read" ->
            IF st.self.engine # None THEN Goto(st, th, "ge_ret")
            ELSE IF ~is_configured(st) THEN Fail(st, th, "ValueError")
            ELSE [st |-> st,
                  th |-> [th EXCEPT !.pc = "ge_create", !.engine_none = @ + 1]]
      [] th.pc = "ge_create" ->
            Only({IF cs.exc # NoExc \/ ~f.create_engine_ok
                  THEN Fail(st, [th EXCEPT !.create_failed = @ + 1],
                            IF cs.exc # NoExc THEN cs.exc ELSE "ArgumentError")
                  ELSE Goto([Bump(st, "engines") EXCEPT !.self.engine =
                                 [tag |-> "Engine", url |-> cs.ret.chars,
                                  n |-> st.fx.engines + 1]],
                            th, "ge_factory") :
                  cs \in {get_connection_string(st)}})
      [] th.pc = "ge_factory" ->
            IF ~f.sessionmaker_ok THEN Fail(st, th, "TypeError")
            ELSE Goto([st EXCEPT !.self.session_factory =
                           [tag |-> "sessionmaker", bind |-> st.self.engine.n]],
                      th, "ge_ret")
      [] OTHER ->
            IF th.ctx = "engine" THEN Finish(st, th, st.self.engine, NoExc)
            ELSE Goto(st, th, "connect")

\* DatabaseConfig.get_connection around the thread's block: lines 170-173
\* (gc_start), 174 (connect), the block (body), 179 (close)
get_connection_step(st, th, f) ==
    CASE th.pc = "gc_start" ->
            IF ~is_configured(st) THEN Fail(st, th, "ValueError")
            ELSE Goto(st, th, "ge_read")
      [] th.pc = "connect" ->
            IF ~st.db.up THEN Fail(Bump(st, "connects"), th, "OperationalError")
            ELSE Goto(Bump(Bump(st, "connects"), "opened"), th, "body")
      [] th.pc = "body" ->
            Only({[st |-> b.st,
                   th |-> [th EXCEPT !.pc = "close", !.ret = b.ret, !.exc = b.exc]] :
                  b \in {RunConnectionBody(st, ThreadBody(th))}})
      [] OTHER ->
            IF ~f.close_ok THEN Fail(Bump(st, "closed"), th, "DBAPIError")
            ELSE IF th.exc # NoExc THEN Fail(Bump(st, "closed"), th, th.exc)
            ELSE IF th.ctx = "probe" THEN Goto(Bump(st, "closed"), th, "tc_tested")
            ELSE Finish(Bump(st, "closed"), th, LookupResult(th, th.ret), NoExc)

\* one step of a thread
Step(st, th, f) ==
    CASE th.pc \in {"ia_tested", "ia_ret"} -> is_available_step(st, th)
      [] th.pc \in {"tc_start", "tc_nc_avail", "tc_except", "tc_tested"} ->
            _test_connection_step(st, th)
      [] th.pc \in {"ge_read", "ge_create", "ge_factory", "ge_ret"} ->
            get_engine_step(st, th, f)
      [] OTHER -> get_connection_step(st, th, f)

\* the outcomes of the library call a step makes
StepFaults(th) ==
    CASE th.pc = "ge_create" ->
            {[NoFaults EXCEPT !.create_engine_ok = a] : a \in BOOLEAN}
      [] th.pc = "ge_factory" ->
            {[NoFaults EXCEPT !.sessionmaker_ok = a] : a \in BOOLEAN}
      [] th.pc = "close" -> {[NoFaults EXCEPT !.close_ok = a] : a \in BOOLEAN}
      [] OTHER -> {NoFaults}

\* the caller initialises the probe before it starts the threads
WarmUp ==
    /\ nOps = 0
    /\ IsAvailable

\* the threads start
Spawn ==
    /\ phase = "ready"
    /\ phase' = "threads"
    /\ threads' = [threads EXCEPT !.start =
                       [tag |-> "probe_state",
                        tested |-> self._connection_tested,
                        available |-> self._is_available,
                        probes |-> fx.probes,
                        engines |-> fx.engines]]
    /\ UNCHANGED <<env, HAS_DB_DEPENDENCIES, self, db, fx, last, nOps, api>>

\* thread t calls a method
Begin(t) ==
    /\ phase = "threads"
    /\ threads.th[t].pc \in {"idle", "done"}
    /\ threads.calls < MaxCalls
    /\ \E op \in ThreadOps :
          threads' = [threads EXCEPT !.calls = @ + 1, !.th[t] =
                         [@ EXCEPT !.op = op,
                                   !.ret = None, !.exc = NoExc,
                                   !.gate = IF op = "get_engine" THEN "none"
                                            ELSE "outer",
                                   !.ctx = IF op = "get_engine" THEN "engine"
                                           ELSE "none",
                                   !.pc = IF op = "get_engine" THEN "ge_read"
                                          ELSE "ia_tested"]]
    /\ UNCHANGED <<env, HAS_DB_DEPENDENCIES, phase, self, db, fx, last, nOps, api>>

\* thread t takes its next step
ThreadStep(t) ==
    /\ phase = "threads"
    /\ threads.th[t].pc \notin {"idle", "done"}
    /\ \E f \in StepFaults(threads.th[t]) :
       \E r \in {Step(State, threads.th[t], f)} :
          /\ self' = r.st.self
          /\ db' = r.st.db
          /\ fx' = r.st.fx
          /\ threads' = [threads EXCEPT
                            !.th[t] = r.th,
                            !.late = @ \/ (/\ self._connection_tested
                                           /\ r.st.self._is_available
                                                # self._is_available)]
    /\ UNCHANGED <<env, HAS_DB_DEPENDENCIES, phase, last, nOps, api>>

\* the stores and configuration sources the threads run against
ThreadEnvs == {EnvAbsent, EnvFull(None, None)}

InitThreads ==
    /\ InitWith(ThreadEnvs)
    /\ db \in {d \in Stores : d.ids = {ThreadArg.n}}

NextThreads ==
    \/ Construct
    \/ WarmUp
    \/ Spawn
    \/ \E t \in Threads : Begin(t)
    \/ \E t \in Threads : ThreadStep(t)
    \/ StoreDown
    \/ StoreUp

SpecThreads == InitThreads /\ [][NextThreads]_vars

-----------------------------------------------------------------------------
(* The configuration source changing under a constructed instance *)

\* the process environment is changed after db_config has been constructed
EnvChange ==
    /\ phase = "ready"
    /\ \E e \in ThreadEnvs : e # env /\ env' = e
    /\ UNCHANGED <<HAS_DB_DEPENDENCIES, phase, self, db, fx, last, nOps, threads, api>>

InitEnv == InitWith(ThreadEnvs) /\ db.ids = {ThreadArg.n}

NextEnv ==
    \/ Construct
    \/ EnvChange
    \/ IsConfigured
    \/ IsAvailable
    \/ GetConnectionString
    \/ GetEngine
    \/ GetConnection
    \/ GetSession
    \/ ExecuteQuery
    \/ ValidatePersonExists
    \/ GetPersonData
    \/ StoreDown
    \/ StoreUp

SpecEnv == InitEnv /\ [][NextEnv]_vars

-----------------------------------------------------------------------------
(* The lookups over tables of every width *)

\* Test.Worldsys with one to six columns
RowStores == [up : BOOLEAN, width : 1..6, ids : SUBSET PersonIds]

\* the results validate_person_exists can get from execute_query: no row, one
\* row with a count, more rows
CountResults ==
    {PyList(<<>>)}
    \cup {PyList(<<(<<PyInt(n)>>)>>) : n \in 0..2}
    \cup {PyList(<<(<<PyInt(n)>>), (<<PyInt(1 - n)>>)>>) : n \in 0..1}

\* lines 245-249 of validate_person_exists on a result of execute_query
CountRows ==
    /\ CanCall
    /\ \E results \in CountResults :
          Completed("count > 0", results,
                    Return(State, PyBool(CountIsPositive(results))))

InitRows ==
    /\ env = EnvFull(None, None)
    /\ HAS_DB_DEPENDENCIES = TRUE
    /\ phase = "new"
    /\ self = Unbuilt
    /\ db \in RowStores
    /\ fx = NoEffects
    /\ last = NoCall
    /\ nOps = 0
    /\ threads = NotStarted
    /\ api = NewApi

NextRows ==
    \/ Construct
    \/ ValidatePersonExists
    \/ GetPersonData
    \/ CountRows
    \/ StoreDown
    \/ StoreUp

SpecRows == InitRows /\ [][NextRows]_vars

-----------------------------------------------------------------------------

(* Properties *)

\* every outcome of engine construction and of closing a connection
AllConnectionFaults ==
    {[NoFaults EXCEPT !.create_engine_ok = a, !.sessionmaker_ok = b, !.close_ok = c] :
        a \in BOOLEAN, b \in BOOLEAN, c \in BOOLEAN}

GatedOps == {"is_available", "execute_query", "validate_person_exists",
             "get_person_data"}

\* the probe has classified the store as unavailable
ClassifiedUnavailable == self._connection_tested /\ ~self._is_available

\* C1: over any sequence of calls the probe attempts its connection at most
\* once, and of two is_available reads in a row, with nothing changing in
\* between, the second returns what the first returned without probing again.
C1_ProbeAtMostOnce ==
    /\ fx.probes <= 1
    /\ phase = "ready" =>
         \A f1 \in ConnectionFaults(State) :
         \A r1 \in {is_available(State, f1)} :
         \A f2 \in ConnectionFaults(r1.st) :
         \A r2 \in {is_available(r1.st, f2)} :
               /\ r1.exc = NoExc /\ r2.exc = NoExc
               /\ r2.ret = r1.ret
               /\ r2.st.fx.probes = r1.st.fx.probes
               /\ r2.st.fx.probes <= 1

\* C1 witness: the probe ran once, it found the store, and a later read of
\* is_available returned the cached answer
C1_Witness ==
    /\ fx.probes = 1 /\ fx.reads >= 2
    /\ last.op = "is_available" /\ last.ret = PyBool(TRUE)

\* C2: _connection_tested never goes back from true to false (so it turns true
\* at most once), every gated call leaves it true, and once it is true no step
\* of the object or of the store changes _is_available.
C2_TestedOnceThenFrozen ==
    [][/\ self._connection_tested =>
            /\ self'._connection_tested
            /\ self'._is_available = self._is_available
       /\ (last'.op \in GatedOps /\ nOps' = nOps + 1) => self'._connection_tested
      ]_vars

\* C2 witness: a query failed although the store was classified available,
\* with the store down
C2_Witness ==
    /\ self._connection_tested /\ self._is_available /\ ~db.up
    /\ last.op = "execute_query" /\ last.exc = "OperationalError"

\* C3: once the probe's connection attempt has raised, the object holds
\* available = false, the read that probed returned false and raised nothing,
\* and every later read of is_available returns false whatever the store has
\* become.
C3_FailedProbeIsFinal ==
    fx.probe_warnings > 0 =>
        /\ self.credentials # None
        /\ self._connection_tested /\ ~self._is_available
        /\ last.op = "is_available" => (last.ret = PyBool(FALSE) /\ last.exc = NoExc)
        /\ \A d \in Stores :
           \A f \in ConnectionFaults([State EXCEPT !.db = d]) :
           \A r \in {is_available([State EXCEPT !.db = d], f)} :
                 r.ret = PyBool(FALSE) /\ r.exc = NoExc
                 /\ r.st.fx.probes = fx.probes

\* C3 witness: the probe could not connect, the store came back, and a later
\* read still returned false
C3_Witness ==
    /\ fx.probe_warnings = 1 /\ fx.connects = 1 /\ fx.opened = 0
    /\ db.up /\ fx.reads >= 2
    /\ last.op = "is_available" /\ last.ret = PyBool(FALSE)

\* C4: with no credentials or no driver support, a read of is_available
\* (the first one included) leaves tested = true and available = false, returns
\* false, and creates no engine and attempts no connection.
C4_UnconfiguredProbe ==
    (phase = "ready" /\ (self.credentials = None \/ ~HAS_DB_DEPENDENCIES)) =>
        /\ self.engine = None /\ fx.engines = 0 /\ fx.connects = 0 /\ fx.probes = 0
        /\ \A f \in AllConnectionFaults :
              LET r == is_available(State, f)
              IN /\ r.ret = PyBool(FALSE) /\ r.exc = NoExc
                 /\ r.st.self = [self EXCEPT !._connection_tested = TRUE,
                                             !._is_available = FALSE]
                 /\ r.st.fx = [fx EXCEPT !.reads = @ + 1]
                 /\ r.st.db = db

\* C4 witness: credentials are present, the driver libraries are not, and the
\* first call on the instance was is_available
C4_Witness ==
    /\ self.credentials # None /\ ~HAS_DB_DEPENDENCIES
    /\ nOps = 1 /\ last.op = "is_available" /\ last.ret = PyBool(FALSE)
    /\ self._connection_tested

\* C5: with none of the DB_* keys set, is_configured, is_available,
\* validate_person_exists(111) and get_person_data(111), called in this order,
\* return false, false, false and None, and none of them raises.
C5_AbsentCredentialsScenario ==
    (phase = "ready" /\ env = EnvAbsent) =>
        \A f \in ConnectionFaults(State) :
            LET r1 == is_configured(State)
                r2 == is_available(State, f)
                r3 == validate_person_exists(r2.st, f, PyInt(111))
                r4 == get_person_data(r3.st, f, PyInt(111))
            IN /\ r1 = FALSE
               /\ r2.ret = PyBool(FALSE) /\ r2.exc = NoExc
               /\ r3.ret = PyBool(FALSE) /\ r3.exc = NoExc
               /\ r4.ret = None /\ r4.exc = NoExc

\* C5 witness: none of the keys is set, the store holds person 111, and
\* get_person_data(111) returned None
C5_Witness ==
    /\ env = EnvAbsent /\ db.up /\ 111 \in db.ids
    /\ last.op = "get_person_data" /\ last.arg = PyInt(111)
    /\ last.ret = None /\ last.exc = NoExc

\* C6: if one of DB_SERVER, DB_NAME, DB_USER, DB_PASSWORD is not set,
\* _load_credentials returns None, whatever the other five keys hold, and the
\* constructed instance has no credentials.
C6_MissingRequiredKey ==
    (\E k \in RequiredKeys : env[k] = None) =>
        /\ _load_credentials(env) = [ret |-> None, exc |-> NoExc]
        /\ phase # "crashed"
        /\ phase = "ready" => self.credentials = None

\* C6 witness: only DB_PASSWORD is missing, DB_PORT holds a non-number, and
\* the instance was constructed
C6_Witness ==
    /\ phase = "ready" /\ self.credentials = None
    /\ env["DB_PASSWORD"] = None
    /\ \A k \in RequiredKeys \ {"DB_PASSWORD"} : Truthy(env[k])
    /\ env["DB_PORT"] = PyStr(<<"a", "b", "c">>)

\* C7: for every content of the six keys _load_credentials returns credentials
\* or None and raises nothing, so the constructor never fails.
C7_ResolutionTotal ==
    last.op = "__init__" => (last.exc = NoExc /\ phase = "ready")

\* C8: while the store is classified unavailable, validate_person_exists
\* returns false for every id and every content of the store, raises nothing,
\* and has no effect but its one read of is_available: no connection attempt,
\* no statement.
C8_UnavailableExistsFalse ==
    (phase = "ready" /\ ClassifiedUnavailable) =>
        \A d \in Stores, id \in ArgIds :
        \A f \in ConnectionFaults([State EXCEPT !.db = d]) :
        \A r \in {validate_person_exists([State EXCEPT !.db = d], f, id)} :
               /\ r.ret = PyBool(FALSE) /\ r.exc = NoExc
               /\ r.st.fx = [fx EXCEPT !.reads = @ + 1]
               /\ r.st.self = self /\ r.st.db = d

\* C8 witness: the store is classified unavailable, it is reachable and holds
\* person 111, and validate_person_exists(111) returned false
C8_Witness ==
    /\ ClassifiedUnavailable /\ self.credentials # None /\ HAS_DB_DEPENDENCIES
    /\ db.up /\ 111 \in db.ids
    /\ last.op = "validate_person_exists" /\ last.arg = PyInt(111)
    /\ last.ret = PyBool(FALSE)

\* C9: get_person_data never raises, and it returns None when the store is
\* classified unavailable, when the instance is not configured, and when no
\* row of the table has the identifier.
C9_AbsentInThreeSituations ==
    phase = "ready" =>
        \A f \in ConnectionFaults(State), id \in ArgIds :
        \A r \in {get_person_data(State, f, id)} :
               /\ r.exc = NoExc
               /\ ( \/ ClassifiedUnavailable
                    \/ self.credentials = None \/ ~HAS_DB_DEPENDENCIES
                    \/ Matching(db, id) = {} ) => r.ret = None

\* C9 witness: the store is available, the query ran, and no row matched
C9_Witness ==
    /\ self._is_available /\ db.up
    /\ last.op = "get_person_data" /\ last.arg.tag = "int"
    /\ last.arg.n \notin db.ids
    /\ last.ret = None /\ fx.stmts >= 2

\* C10: with the store and the outcomes of the library calls held fixed,
\* get_person_data(id) called after validate_person_exists(id) returns None if
\* that returned false, and a record whose personId is id if it returned true.
C10_ExistsFetchConsistent ==
    phase = "ready" =>
        \A f \in ConnectionFaults(State), id \in ArgIds :
        \A v \in {validate_person_exists(State, f, id)} :
        \A g \in {get_person_data(v.st, f, id)} :
               /\ v.st.db = db
               /\ v.ret = PyBool(FALSE) => g.ret = None
               /\ v.ret = PyBool(TRUE) => (g.ret.tag = "dict" /\ g.ret.personId = id)

\* C10 witness: the probe succeeded, validate_person_exists(111) was true, and
\* get_person_data(111) returned the record of person 111
C10_Witness ==
    /\ fx.probes = 1 /\ fx.probe_warnings = 0 /\ 111 \in db.ids
    /\ validate_person_exists(State, NoFaults, PyInt(111)).ret = PyBool(TRUE)
    /\ last.op = "get_person_data" /\ last.arg = PyInt(111)
    /\ last.ret.tag = "dict" /\ last.ret.personId = PyInt(111)

\* C11: in every step that runs a get_session block on an acquired session:
\* if the body raised, the store is as it was, whatever the body wrote, no
\* commit was attempted and rollback was called once, and the call raised; if
\* the body completed normally, commit was called once, and the row the body
\* wrote is in the store unless the commit failed and was rolled back, in
\* which case the call raised and the store is as it was.
C11_CommitOrRollback ==
    [][(last'.op = "get_session" /\ nOps' = nOps + 1) =>
        \A b \in {RunSessionBody(State, last'.arg)} :
            LET acquired == fx'.sessions = fx.sessions + 1
                rolledBack == fx'.rollbacks = fx.rollbacks + 1
            IN /\ ~acquired => (db' = db /\ last'.exc # NoExc)
               /\ (acquired /\ b.exc # NoExc) =>
                     /\ db' = db
                     /\ fx'.commits = fx.commits
                     /\ rolledBack
                     /\ last'.exc # NoExc
               /\ (acquired /\ b.exc = NoExc) =>
                     /\ fx'.commits = fx.commits + 1
                     /\ ~rolledBack => db'.ids = db.ids \cup b.pending
                     /\ rolledBack => (db' = db /\ last'.exc # NoExc)
                     /\ last'.exc = NoExc => ~rolledBack
      ]_vars

\* C11 witness: one session body raised and was rolled back, another wrote
\* person 111 and completed; 111 is in the store and 222 is not
C11_Witness ==
    /\ fx.sessions = 2 /\ fx.rollbacks = 1 /\ fx.commits = 1
    /\ last.op = "get_session" /\ last.exc = NoExc
    /\ last.arg = [write |-> PyInt(111), raises |-> FALSE]
    /\ 111 \in db.ids /\ 222 \notin db.ids

\* C12: when the body of a get_session block raises E, the call ends with E
\* itself, also when the rollback or the close that follows fails.
C12_OriginalErrorUnmasked ==
    [][(/\ last'.op = "get_session" /\ nOps' = nOps + 1
        /\ fx'.sessions = fx.sessions + 1
        /\ RunSessionBody(State, last'.arg).exc # NoExc)
       => last'.exc = RunSessionBody(State, last'.arg).exc]_vars

\* C13: after any sequence of completed calls every connection that
\* engine.connect() returned has had close called on it exactly once, and
\* every session that session_factory() returned has had close called on it
\* exactly once: the acquisitions equal the releases, whether the blocks and
\* the library calls succeeded or raised.
C13_ReleasedExactlyOnce ==
    /\ fx.closed = fx.opened
    /\ fx.session_closes = fx.sessions
    /\ fx.opened <= fx.connects

\* C13 witness: a session whose body raised was closed, and then a
\* get_connection block raised with its connection open
C13_Witness ==
    /\ fx.sessions = 1 /\ fx.rollbacks = 1 /\ fx.session_closes = 1
    /\ fx.opened >= 1
    /\ last.op = "get_connection" /\ last.exc = "BodyError"

\* every outcome of the library calls
AllFaults ==
    [create_engine_ok : BOOLEAN, sessionmaker_ok : BOOLEAN, close_ok : BOOLEAN,
     commit_ok : BOOLEAN, rollback_ok : BOOLEAN, session_close_ok : BOOLEAN]

\* C14: on an instance that is not configured, get_connection and get_session
\* raise ValueError, and get_connection_string raises ValueError when there are
\* no credentials; the call changes nothing: no engine, no connection, no
\* session, tested and available as they were.
C14_UnconfiguredFailsFast ==
    (phase = "ready" /\ (self.credentials = None \/ ~HAS_DB_DEPENDENCIES)) =>
        /\ self.engine = None /\ self.session_factory = None
        /\ fx.engines = 0 /\ fx.connects = 0 /\ fx.sessions = 0
        /\ \A f \in AllFaults :
              /\ \A raises \in BOOLEAN :
                    get_connection(State, f, [kind |-> "user", raises |-> raises])
                        = Raise(State, "ValueError")
              /\ \A body \in [write : {None} \cup ArgIds, raises : BOOLEAN] :
                    get_session(State, f, body) = Raise(State, "ValueError")
        /\ self.credentials = None =>
              get_connection_string(State) = Raise(State, "ValueError")

\* C14 witness: no credentials; the probe has run, and the third call on the
\* instance, get_session, raised ValueError
C14_Witness ==
    /\ self.credentials = None /\ self._connection_tested /\ nOps = 3
    /\ fx.reads = 1 /\ fx.engines = 0 /\ fx.sessions = 0
    /\ last.op = "get_session" /\ last.exc = "ValueError"

\* C15: whenever the read of is_available inside execute_query yields false,
\* execute_query raises ValueError and does nothing beyond that read; on a
\* store already classified unavailable this means no connection attempt and
\* no statement at all, whatever the store has become.
C15_UnavailableNeverQueries ==
    phase = "ready" =>
        \A c \in QueryCalls :
        \A f \in ConnectionFaults(State) :
        \A a \in {is_available(State, f)}, r \in {execute_query(State, f, c[1], c[2])} :
            /\ a.ret = PyBool(FALSE) => r = Raise(a.st, "ValueError")
            /\ ClassifiedUnavailable =>
                  /\ r.exc = "ValueError"
                  /\ r.st.fx = [fx EXCEPT !.reads = @ + 1]
                  /\ r.st.self = self /\ r.st.db = db

\* C15 witness: the probe failed to connect, the store is reachable again, and
\* execute_query raised ValueError without a further connection attempt
C15_Witness ==
    /\ ClassifiedUnavailable /\ self.credentials # None /\ HAS_DB_DEPENDENCIES
    /\ db.up /\ fx.connects = 1 /\ fx.opened = 0 /\ fx.stmts = 0
    /\ last.op = "execute_query" /\ last.exc = "ValueError"

\* C16: on a store classified available, a query that fails (the store is
\* unreachable, the statement is rejected, or closing the connection fails)
\* makes execute_query raise that failure, with every connection it opened
\* closed; validate_person_exists and get_person_data raise nothing, and for a
\* failure of their query they return false and None.
C16_FailureSurfacesOrDegrades ==
    (phase = "ready" /\ self._connection_tested /\ self._is_available) =>
        /\ \A c \in QueryCalls :
           \A f \in ConnectionFaults(State) :
           \A r \in {execute_query(State, f, c[1], c[2])} :
                 /\ ~db.up => r.exc = "OperationalError"
                 /\ (db.up /\ ~f.close_ok) => r.exc = "DBAPIError"
                 /\ (db.up /\ f.close_ok /\ c[1] = BadQuery) =>
                        r.exc = "ProgrammingError"
                 /\ (db.up /\ f.close_ok /\ c[1] # BadQuery) => r.exc = NoExc
                 /\ r.st.fx.closed = r.st.fx.opened
                 /\ r.st.fx.opened = fx.opened + (IF db.up THEN 1 ELSE 0)
        /\ \A id \in ArgIds :
           \A f \in ConnectionFaults(State) :
           \A v \in {validate_person_exists(State, f, id)},
              g \in {get_person_data(State, f, id)} :
                 /\ v.exc = NoExc /\ g.exc = NoExc
                 /\ execute_query(State, f, CountQuery, id).exc # NoExc =>
                        v.ret = PyBool(FALSE)
                 /\ execute_query(State, f, SelectQuery, id).exc # NoExc =>
                        g.ret = None

\* C16 witness: the store was classified available and then became
\* unreachable; validate_person_exists returned false for a person the store
\* holds, after a failed connection attempt
C16_Witness ==
    /\ self._connection_tested /\ self._is_available /\ ~db.up
    /\ fx.connects = 2 /\ fx.opened = 1
    /\ last.op = "validate_person_exists" /\ last.arg.n \in db.ids
    /\ last.ret = PyBool(FALSE) /\ last.exc = NoExc

\* C17: in every state of a constructed instance is_configured is
\* (credentials present and driver support present), the same for every value
\* of tested and available; a read of it returns that value, raises nothing
\* and changes nothing: no probe, no connection, tested, available and the
\* engine as they were.
C17_IsConfiguredPure ==
    [][/\ phase' = "ready" =>
            \A t \in BOOLEAN, a \in BOOLEAN :
                is_configured([State EXCEPT !.self._connection_tested = t,
                                            !.self._is_available = a])'
                    = (self'.credentials # None /\ HAS_DB_DEPENDENCIES')
       /\ (last'.op = "is_configured" /\ nOps' = nOps + 1) =>
            /\ last'.ret = PyBool(self.credentials # None /\ HAS_DB_DEPENDENCIES)
            /\ last'.exc = NoExc
            /\ self' = self /\ fx' = fx /\ db' = db
      ]_vars

\* C17 witness: the probe ran and failed, and a later read of is_configured
\* returned true
C17_Witness ==
    /\ fx.probes = 1 /\ self._connection_tested /\ ~self._is_available
    /\ self.engine # None
    /\ last.op = "is_configured" /\ last.ret = PyBool(TRUE)

\* C18: create_engine succeeds at most once on an instance, and not in the
\* constructor; once self.engine is set no step replaces it or constructs
\* another engine, and a get_engine that returns normally returns self.engine.
C18_EngineOnce ==
    [][/\ fx'.engines <= 1
       /\ (self'.engine = None) = (fx'.engines = 0)
       /\ phase = "new" => self'.engine = None
       /\ self.engine # None =>
             (self'.engine = self.engine /\ fx'.engines = fx.engines)
       /\ (last'.op = "get_engine" /\ nOps' = nOps + 1 /\ last'.exc = NoExc) =>
             (last'.ret = self'.engine /\ last'.ret # None)
      ]_vars

\* C18 witness: three calls were made, a session or a connection used the
\* engine, and the last call, get_engine, returned the one engine constructed
C18_Witness ==
    /\ fx.engines = 1 /\ nOps = 3
    /\ fx.sessions + fx.connects >= 1
    /\ last.op = "get_engine" /\ last.exc = NoExc /\ last.ret.n = 1

\* the sum over the threads in S of a counter of their records
RECURSIVE SumOver(_, _)
SumOver(S, counter) ==
    IF S = {} THEN 0
    ELSE LET t == CHOOSE x \in S : TRUE
         IN threads.th[t][counter] + SumOver(S \ {t}, counter)

\* the threads at position pc
ThreadsAt(pc) == {t \in Threads : threads.th[t].pc = pc}

\* C19: when the probe had completed before the threads started, then in
\* every state of every interleaving of their calls no thread has found
\* _connection_tested false or entered the probe, the number of probe
\* attempts is what it was at the start, tested and available are what they
\* were, and every completed is_available call returned the value cached at
\* the start.
C19_WarmStartNoProbe ==
    (phase = "threads" /\ threads.start.tested) =>
        /\ fx.probes = threads.start.probes
        /\ self._connection_tested
        /\ self._is_available = threads.start.available
        /\ ~threads.late
        /\ \A t \in Threads :
              /\ threads.th[t].untested = 0
              /\ threads.th[t].pc \notin {"tc_start", "tc_nc_avail", "tc_except",
                                         "tc_tested"}
              /\ threads.th[t].ctx # "probe"
              /\ (threads.th[t].pc = "done" /\ threads.th[t].op = "is_available") =>
                    /\ threads.th[t].ret = PyBool(threads.start.available)
                    /\ threads.th[t].exc = NoExc

\* C19 witness: after a successful probe, thread 1 is inside is_available
\* between lines 86 and 88 while thread 2, inside get_person_data, holds the
\* connection of its query
C19_Witness ==
    /\ phase = "threads" /\ threads.start.tested /\ threads.start.available
    /\ threads.th[1].op = "is_available" /\ threads.th[1].pc = "ia_ret"
    /\ threads.th[2].op = "get_person_data" /\ threads.th[2].pc = "close"
    /\ fx.probes = 1 /\ fx.connects = 2

\* C20: nothing serialises first use.  On a configured instance every read
\* of _connection_tested that found it false is followed by that thread's own
\* probe attempt, and every read of engine that found None by that thread's
\* own create_engine call, whatever the other thread has stored in between;
\* and _is_available changes while _connection_tested is true only when the
\* threads started on an untested instance and two probe attempts were made.
C20_UnserializedFirstUse ==
    phase = "threads" =>
        /\ is_configured(State) =>
              fx.probes - threads.start.probes + Cardinality(ThreadsAt("tc_start"))
                  = SumOver(Threads, "untested")
        /\ fx.engines - threads.start.engines + SumOver(Threads, "create_failed")
              + Cardinality(ThreadsAt("ge_create"))
                  = SumOver(Threads, "engine_none")
        /\ threads.late => (fx.probes >= 2 /\ ~threads.start.tested)

\* C20 witness: both threads made first use of is_available; each made its own
\* probe attempt and constructed its own engine, and _is_available changed
\* after _connection_tested had become true
C20_Witness ==
    /\ phase = "threads" /\ ~threads.start.tested
    /\ \A t \in Threads :
          threads.th[t].op = "is_available" /\ threads.th[t].pc = "done"
    /\ fx.probes = 2 /\ fx.engines = 2 /\ threads.late

-----------------------------------------------------------------------------
(* The ImportAPI database helpers *)

\* the helpers and the method of the context each one delegates to
ApiDelegates ==
    [validate_person_in_database |-> "validate_person_exists",
     get_person_from_database |-> "get_person_data",
     execute_db_query |-> "execute_query"]

\* what a helper returns when it gives up
ApiFallback(op) ==
    IF op = "validate_person_in_database" THEN PyBool(FALSE) ELSE None

\* a helper has just been called
ApiCall(op) == nOps' = nOps + 1 /\ last'.op = op

\* the attached context is configured and has been classified unavailable
ContextUnavailable ==
    \/ /\ api.db_config \in Doubles
       /\ api.db_config.is_configured
       /\ ~api.db_config.is_available
    \/ /\ api.db_config = TheDbConfig
       /\ is_configured(State)
       /\ ClassifiedUnavailable

\* C21: when the attached context is configured but classified unavailable,
\* validate_person_in_database returns False, get_person_from_database returns
\* None and execute_db_query returns None, and none of the three raises.
\* Violated: the first two helpers never read is_available, so they hand back
\* whatever the context's method returns.
C21_UnavailableContextDegrades ==
    [][\A op \in DOMAIN ApiDelegates :
          (ApiCall(op) /\ ContextUnavailable)
              => last'.exc = NoExc /\ last'.ret = ApiFallback(op)]_vars

\* the context the helpers will use is not configured: a double that says so,
\* or the module-level instance without credentials or driver support
ContextNotConfigured ==
    \/ api.db_config \in Doubles /\ ~api.db_config.is_configured
    \/ /\ api.db_config \in {Unset, None, TheDbConfig}
       /\ phase = "ready"
       /\ ~is_configured(State)

\* C22: when the attached context is not configured,
\* validate_person_in_database returns False and get_person_from_database
\* returns None, without calling validate_person_exists or get_person_data on
\* the context and without triggering the probe.
C22_NotConfiguredShortCircuits ==
    [][\A op \in {"validate_person_in_database", "get_person_from_database"} :
          (ApiCall(op) /\ ContextNotConfigured)
              => /\ last'.exc = NoExc
                 /\ last'.ret = ApiFallback(op)
                 /\ api'.calls = api.calls
                 /\ fx' = fx
                 /\ self' = self]_vars

\* validate_person_in_database has returned False on a double that is not
\* configured and whose validate_person_exists would have returned True; the
\* double has recorded no call
C22_Witness ==
    /\ last.op = "validate_person_in_database"
    /\ api.db_config \in Doubles
    /\ ~api.db_config.is_configured
    /\ api.db_config.behaviour = "returns"
    /\ last.ret = PyBool(FALSE)
    /\ api.calls = <<>>

\* the context is configured and available: a double that says so, or the
\* module-level instance after a successful probe
ContextAvailable ==
    \/ /\ api.db_config \in Doubles
       /\ api.db_config.is_configured
       /\ api.db_config.is_available
    \/ /\ api.db_config = TheDbConfig
       /\ is_configured(State)
       /\ self._connection_tested
       /\ self._is_available

\* the state in which a helper calls its delegate: execute_db_query has read
\* is_available by then
BeforeDelegate(op, f) ==
    IF op = "execute_db_query" THEN ContextIsAvailable(ApiState, f).st
    ELSE ApiState

\* C23: when the attached context is configured and available, each helper
\* delegates exactly once with its arguments unchanged and returns the
\* delegate's result unchanged: validate_person_in_database(id) to
\* validate_person_exists(id), get_person_from_database(id) to
\* get_person_data(id), execute_db_query(q, p) to execute_query(q, p), p being
\* None when omitted.
C23_DelegatesOnceUnchanged ==
    [][\A op \in DOMAIN ApiDelegates :
          (ApiCall(op) /\ ContextAvailable)
              => /\ api'.calls =
                        Append(api.calls, [method |-> ApiDelegates[op],
                                           args |-> last'.arg])
                 /\ \E f \in ConnectionFaults(State) :
                       \A r \in {Delegate(BeforeDelegate(op, f), f,
                                          ApiDelegates[op], last'.arg)} :
                          /\ r.st.self = self'
                          /\ r.st.db = db'
                          /\ r.st.fx = fx'
                          /\ r.exc = NoExc => last'.ret = r.ret /\ last'.exc = NoExc]_vars

\* execute_db_query("SELECT 1") has called execute_query("SELECT 1", None)
\* once on an available double and returned its rows
C23_Witness ==
    /\ last.op = "execute_db_query"
    /\ api.db_config \in Doubles
    /\ api.db_config.is_configured
    /\ api.db_config.is_available
    /\ api.calls = <<[method |-> "execute_query", args |-> <<ProbeQuery, None>>]>>
    /\ last.ret = ReturnValue("execute_query")

-----------------------------------------------------------------------------
(* The connection string *)

\* URL encoding of one character in a query value (urllib.parse.quote_plus):
\* a blank becomes "+", a reserved character its percent code
QuoteChar(c) ==
    CASE c = " " -> <<"+">>
      [] c = "{" -> <<"%", "7", "B">>
      [] c = "}" -> <<"%", "7", "D">>
      [] c = "+" -> <<"%", "2", "B">>
      [] c = "&" -> <<"%", "2", "6">>
      [] c = "%" -> <<"%", "2", "5">>
      [] OTHER -> <<c>>

RECURSIVE QuotePlus(_)
QuotePlus(cs) ==
    IF cs = <<>> THEN <<>> ELSE QuoteChar(Head(cs)) \o QuotePlus(Tail(cs))

\* mssql+pyodbc://<user>:<password>@<server>[,<port>]/<database>?driver=<name>
\* for the credentials c, the port segment being there when a port is set
ConnectionUri(c) ==
    UrlScheme \o c.username.chars \o <<":">> \o c.password.chars \o <<"@">>
    \o c.server.chars
    \o (IF c.port # None THEN <<",">> \o PyStrOfInt(c.port.n) ELSE <<>>)
    \o <<"/">> \o c.database.chars
    \o UrlDriverKey \o QuotePlus(c.driver.chars)

\* C24: get_connection_string URL-encodes the driver name for every driver
\* value and produces one URI of the shape
\* mssql+pyodbc://<user>:<password>@<server>[,<port>]/<database>?driver=<name>,
\* the ",<port>" segment being present exactly when a port is configured.
\* Violated: only blanks of the driver name are replaced, and port 0 is
\* left out.
C24_ConnectionUri ==
    (last.op = "get_connection_string" /\ last.exc = NoExc)
        => last.ret = PyStr(ConnectionUri(self.credentials))

-----------------------------------------------------------------------------
(* The response helpers *)

\* C25: validate_response_success(response) returns true if and only if the
\* status code of the response is one of 200, 201, 202, for every status code.
C25_SuccessIffAccepted ==
    last.op = "validate_response_success"
        => (last.ret = PyBool(TRUE) <=> last.arg.status_code \in {200, 201, 202})
           /\ last.ret \in {PyBool(TRUE), PyBool(FALSE)}
           /\ last.exc = NoExc

\* validate_response_success has returned False for 204, a 2xx code outside
\* the accepted set
C25_Witness ==
    /\ last.op = "validate_response_success"
    /\ last.arg.status_code = 204
    /\ last.ret = PyBool(FALSE)

\* C26: get_response_data returns None for every response whose body cannot
\* be decoded as JSON and never raises, and returns the decoded value
\* otherwise.
\* Violated: a body nested deeper than the decoder descends makes
\* response.json() raise RecursionError, which the handler does not catch.
C26_DecodedOrAbsent ==
    last.op = "get_response_data"
        => \A j \in {JsonLoads(last.arg.text, Len(last.arg.text) + 1)} :
              /\ last.exc = NoExc
              /\ last.ret = IF j.exc = NoExc THEN j.value ELSE None

-----------------------------------------------------------------------------
(* The probe as a gate *)

\* the operations that work on a connection or a session
DownstreamOps ==
    {"get_connection", "get_session", "execute_query", "validate_person_exists",
     "get_person_data"}

\* C27: the probe gates every downstream component: once the store has been
\* classified unavailable (tested, not available), no later get_connection,
\* get_session, execute_query, validate_person_exists or get_person_data call
\* acquires a connection or a session.
\* Violated: get_connection and get_session check is_configured only.
C27_ProbeGatesDownstream ==
    [][(ClassifiedUnavailable /\ nOps' = nOps + 1 /\ last'.op \in DownstreamOps)
          => fx'.opened = fx.opened /\ fx'.sessions = fx.sessions]_vars

-----------------------------------------------------------------------------
(* The order of the calls on a session *)

\* C28: in every get_session call the session's close happens strictly after
\* its commit or rollback has resolved, and it happens in all cases: after a
\* successful commit, after a failed commit, and after a rollback, successful
\* or failed.
C28_CloseAfterResolution ==
    fx.sessions > 0
        => /\ fx.session_log \in {<<"commit", "close">>, <<"rollback", "close">>,
                                  <<"commit", "rollback", "close">>}
           /\ fx.session_closes = fx.sessions

\* a session whose commit and rollback both raised has been closed after them
C28_Witness ==
    /\ last.op = "get_session"
    /\ last.exc = "RollbackError"
    /\ fx.session_log = <<"commit", "rollback", "close">>

\* C29: when the body of get_session completes normally but commit raises,
\* rollback is invoked on the same session, the commit's exception is
\* propagated to the caller, and the session is closed exactly once; a session
\* never ends with neither commit nor rollback attempted when the body returned
\* normally or raised an Exception.
\* Violated: when rollback or close raises after the failed commit, that
\* exception is the one the caller gets.
C29_FailedCommitRollsBack ==
    [][(nOps' = nOps + 1 /\ last'.op = "get_session"
            /\ fx'.sessions = fx.sessions + 1)
          => /\ fx'.session_log[1] \in {"commit", "rollback"}
             /\ \A f \in SessionFaults(State, last'.arg) :
                   \A r \in {get_session(State, f, last'.arg)} :
                      (/\ r.st.fx = fx'
                       /\ r.exc = last'.exc
                       /\ RunSessionBody(State, last'.arg).exc = NoExc
                       /\ ~f.commit_ok)
                          => /\ fx'.session_log = <<"commit", "rollback", "close">>
                             /\ fx'.session_closes = fx.session_closes + 1
                             /\ last'.exc = "CommitError"]_vars

-----------------------------------------------------------------------------
(* No retry *)

\* C30: no retry exists: each execute_query call runs its statement at most
\* once and acquires at most one connection for it, and each
\* validate_person_exists / get_person_data call issues at most one
\* execute_query; a failed query or probe is final for that call.  Counted per
\* call: beside the one connection and statement of a probe run within the
\* call, at most one connection attempt and one statement, none of them when
\* the call leaves the store classified unavailable; is_available is read once
\* by execute_query and once more by a lookup.
C30_NoRetry ==
    [][(nOps' = nOps + 1
            /\ last'.op \in {"execute_query", "validate_person_exists",
                             "get_person_data"})
          => \A p \in {fx'.probes - fx.probes} :
                /\ p \in {0, 1}
                /\ fx'.connects - fx.connects <= p + 1
                /\ fx'.stmts - fx.stmts <= p + 1
                /\ ~self'._is_available
                      => /\ fx'.connects - fx.connects <= p
                         /\ fx'.stmts - fx.stmts <= p
                /\ fx'.reads - fx.reads
                      <= IF last'.op = "execute_query" THEN 1 ELSE 2]_vars

\* validate_person_exists has returned False after its one query failed to
\* connect: the store went down after a successful probe, and the connection
\* attempts are the probe's and one more
C30_Witness ==
    /\ last.op = "validate_person_exists"
    /\ last.ret = PyBool(FALSE)
    /\ self._is_available
    /\ ~db.up
    /\ fx.probes = 1
    /\ fx.connects = 2
    /\ fx.opened = 1

-----------------------------------------------------------------------------
(* Connections and results of execute_query *)

\* C31: execute_query materializes the full result set while its connection
\* is still held, releases that connection before returning, and never hands
\* a connection or an unread cursor to its caller; no connection is shared or
\* kept across two calls.  Per execute_query step: no connection is open
\* before the call, every connection opened in it is closed in it, a statement
\* runs only on a connection opened in the call, and a returned value is the
\* list of all rows the store answered with.
C31_ResultMaterializedConnectionReleased ==
    [][(nOps' = nOps + 1 /\ last'.op = "execute_query")
          => /\ fx.opened = fx.closed
             /\ fx'.opened - fx.opened = fx'.closed - fx.closed
             /\ fx'.stmts - fx.stmts <= fx'.opened - fx.opened
             /\ last'.exc = NoExc
                   => \E c \in QueryCalls :
                         /\ c[2] = last'.arg
                         /\ last'.ret = PyList(ExecuteSql(db, c[1], c[2]).rows)]_vars

\* execute_query has returned the one row of person 111 and both connections
\* opened so far, the probe's and the query's, are closed
C31_Witness ==
    /\ last.op = "execute_query"
    /\ last.exc = NoExc
    /\ last.arg = PyInt(111)
    /\ last.ret.tag = "list"
    /\ Len(last.ret.items) = 1
    /\ Len(last.ret.items[1]) = 3
    /\ fx.opened = 2
    /\ fx.closed = 2

-----------------------------------------------------------------------------
(* Credentials after construction *)

\* C32: no operation of DatabaseConfig changes the resolved credentials after
\* construction: they keep the value read at construction through any
\* sequence of operations, also when the configuration source changes
\* afterwards.
C32_CredentialsFrozen ==
    [][phase = "ready" => self'.credentials = self.credentials]_vars

\* the credentials were resolved from a full environment, the environment has
\* been emptied since, and get_connection_string still builds its URI
C32_Witness ==
    /\ env = EnvAbsent
    /\ self.credentials # None
    /\ last.op = "get_connection_string"
    /\ last.exc = NoExc

-----------------------------------------------------------------------------
(* The results of the lookups *)

\* column k (from 0) of a row, None when the row has no such column
ColumnOrNone(row, k) == IF Len(row) > k THEN row[k + 1] ELSE None

\* C33: get_person_data maps the first result row positionally: personId is
\* column 0, and for k = 1..4 the field (firstName, lastName, email,
\* created_at) equals column k when the row has more than k columns and is
\* unset (None) otherwise; a short row never causes an error and columns
\* beyond the fifth are ignored.
C33_PositionalMapping ==
    phase = "ready" =>
    \A f \in ConnectionFaults(State), id \in ArgIds :
       \A a \in {is_available(State, f)} :
          Truthy(a.ret) =>
             \A q \in {execute_query(a.st, f, SelectQuery, id)} :
                (q.exc = NoExc /\ Truthy(q.ret)) =>
                   \A r \in {get_person_data(State, f, id)} :
                      /\ r.exc = NoExc
                      /\ r.ret = [tag |-> "dict",
                                  personId |-> q.ret.items[1][1],
                                  firstName |-> ColumnOrNone(q.ret.items[1], 1),
                                  lastName |-> ColumnOrNone(q.ret.items[1], 2),
                                  email |-> ColumnOrNone(q.ret.items[1], 3),
                                  created_at |-> ColumnOrNone(q.ret.items[1], 4)]

\* get_person_data has returned the record of a row of two columns: personId
\* and firstName are set, the other fields are None
C33_Witness ==
    /\ last.op = "get_person_data"
    /\ db.width = 2
    /\ last.ret # None
    /\ last.ret.personId = last.arg
    /\ last.ret.firstName = ColumnValue(last.arg.n, 1)
    /\ last.ret.lastName = None
    /\ last.ret.created_at = None

\* C34: when the store is available and the query succeeds,
\* validate_person_exists(id) returns true exactly when the count in the first
\* column of the first result row is greater than 0, and returns false when
\* the result set is empty.
C34_ExistsIffCountPositive ==
    /\ phase = "ready" =>
       \A f \in ConnectionFaults(State), id \in ArgIds :
          \A a \in {is_available(State, f)} :
             Truthy(a.ret) =>
                \A q \in {execute_query(a.st, f, CountQuery, id)} :
                   q.exc = NoExc =>
                      \A r \in {validate_person_exists(State, f, id)} :
                         /\ r.exc = NoExc
                         /\ r.ret = PyBool(q.ret.items # <<>>
                                           /\ q.ret.items[1][1].n > 0)
    /\ last.op = "count > 0" =>
          last.ret = PyBool(last.arg.items # <<>> /\ last.arg.items[1][1].n > 0)

\* validate_person_exists has returned True for a person whose row is in the
\* reachable store
C34_Witness ==
    /\ last.op = "validate_person_exists"
    /\ last.ret = PyBool(TRUE)
    /\ last.arg.n \in db.ids
    /\ db.up
    /\ self._is_available

-----------------------------------------------------------------------------
(* ImportAPI: results of execute_db_query, and the attached context *)

\* C35: execute_db_query keeps an empty result distinct from "could not
\* check": it returns None exactly when no context is attached, the store is
\* unavailable or the query raises, and otherwise returns the (possibly
\* empty) row sequence; it never raises.
\* Violated: when no context is attached and DatabaseConfig() raised at module
\* level, the import inside __init_db__ raises ValueError, which only an
\* ImportError handler guards.
C35_NoneOnlyWhenNotChecked ==
    [][ApiCall("execute_db_query")
          => /\ last'.exc = NoExc
             /\ api.db_config \in Doubles
                   => (last'.ret = None
                          <=> \/ ~api.db_config.is_available
                              \/ api.db_config.behaviour = "raises")
             /\ (api'.db_config = TheDbConfig /\ last'.ret # None)
                   => /\ self'._is_available
                      /\ last'.ret.tag = "list"
                      /\ api'.calls = Append(api.calls,
                                             [method |-> "execute_query",
                                              args |-> last'.arg])]_vars

\* C36: a database context attached to an ImportAPI instance (db_config not
\* None) is never replaced by any ImportAPI operation; only when none is
\* attached (attribute missing or None) does a database helper attach the
\* process-wide db_config, and API calls (import_person) never touch the
\* context or its probe state.
C36_ContextNeverReplaced ==
    [][nOps' = nOps + 1
          => /\ api.db_config \notin {Unset, None}
                   => api'.db_config = api.db_config
             /\ api'.db_config # api.db_config
                   => /\ api'.db_config = TheDbConfig
                      /\ last'.op \in DOMAIN ApiDelegates
             /\ last'.op = "import_person"
                   => api' = api /\ self' = self /\ fx' = fx]_vars

\* a helper has attached the module-level instance and run its probe, and the
\* import_person call made after it has left the context and the probe state
\* as they were
C36_Witness ==
    /\ last.op = "import_person"
    /\ api.db_config = TheDbConfig
    /\ Len(api.calls) = 1
    /\ self._connection_tested
    /\ fx.probes = 1

-----------------------------------------------------------------------------
(* The probe state between calls *)

\* C37: in every quiescent state of a single-threaded run (no operation in
\* progress), _is_available = true implies that _connection_tested is true,
\* that credentials are present with driver support (is_configured), and that
\* the engine has been constructed.
C37_AvailableImpliesTestedConfiguredEngine ==
    self._is_available
        => /\ self._connection_tested
           /\ is_configured(State)
           /\ self.engine # None

\* the probe has succeeded: the store is classified available, the engine and
\* its session factory exist
C37_Witness ==
    /\ self._is_available
    /\ self._connection_tested
    /\ self.engine # None
    /\ self.session_factory # None
    /\ fx.probes = 1
    /\ fx.engines = 1

\* C38: get_connection, get_session, get_engine and get_connection_string
\* never run the probe and leave _connection_tested and _is_available
\* unchanged, whether they succeed or fail; only is_available, execute_query,
\* validate_person_exists and get_person_data can trigger the probe, each one
\* doing so when it is the first gated operation on the instance.
C38_OnlyGatedOpsProbe ==
    [][nOps' = nOps + 1
          => /\ last'.op \in {"get_connection", "get_session", "get_engine",
                                "get_connection_string"}
                   => /\ fx'.probes = fx.probes
                      /\ self'._connection_tested = self._connection_tested
                      /\ self'._is_available = self._is_available
             /\ (last'.op \in GatedOps /\ ~self._connection_tested)
                   => /\ self'._connection_tested
                      /\ fx'.probes = fx.probes
                                      + (IF is_configured(State) THEN 1 ELSE 0)
             /\ (last'.op \in GatedOps /\ self._connection_tested)
                   => /\ fx'.probes = fx.probes
                      /\ self'._connection_tested
                      /\ self'._is_available = self._is_available]_vars

\* get_session has failed on an instance that no gated operation has used:
\* the store is still unclassified and no probe has run
C38_Witness ==
    /\ last.op = "get_session"
    /\ last.exc # NoExc
    /\ self.engine # None
    /\ ~self._connection_tested
    /\ fx.probes = 0
    /\ fx.sessions = 1

-----------------------------------------------------------------------------
(* Engine and session factory *)

====
